---- MODULE Spec2Model ----
(***************************************************************************)
(* Verification model of the figma-website-diff backend: the job           *)
(* orchestrator (app/tasks/comparison_tasks.py), the job store             *)
(* (app/services/job_storage.py), the comparison endpoints                 *)
(* (app/api/comparison_endpoints.py), the comparison history               *)
(* (app/models/database.py) and the design-API response cache              *)
(* (app/services/figma_extractor.py).                                      *)
(*                                                                         *)
(* Python dicts are functions whose DOMAIN is the set of keys present.     *)
(* Python None is the string NoneVal.  Scores are kept in tenths of a      *)
(* percent (87.4 is 874), the resolution round(x, 1) leaves.               *)
(***************************************************************************)
EXTENDS Integers, Sequences, FiniteSets, TLC

\* ---------------------------------------------------------------- bounds
MaxJobs == 1
MaxViewports == 2
MaxTime == 60
ClockStep == 10

\* ------------------------------------------------------------- constants
NoneVal == "None"

JobIds == 1 .. MaxJobs

\* str(e) of the exceptions the collaborators raise.
DbErrors == {"database is locked"}
DiskErrors == {"[Errno 28] No space left on device"}
ExtractErrors == {"Node 1:2 not found in file",
                  "Only 'url' input type is currently supported"}
RenderErrors == {"Timeout 30000ms exceeded."}

\* generate_html_report() takes no comparison_number argument.
HtmlKwargError ==
    "ReportGenerator.generate_html_report() got an unexpected keyword argument 'comparison_number'"

\* What UIComparator.compare can hand back: summary.match_score (tenths) and
\* the number of entries of report.differences.
CompareOutcomes ==
    { [match_score |-> 1000, differences |-> 0],
      [match_score |-> 865, differences |-> 2] }

\* The viewports a responsive request lists (schemas.py default list first).
ViewportPresets ==
    << [name |-> "mobile", size |-> "375x667"],
       [name |-> "tablet", size |-> "768x1024"],
       [name |-> "desktop", size |-> "1920x1080"],
       [name |-> "wide", size |-> "2560x1440"],
       [name |-> "tv", size |-> "3840x2160"] >>

Viewports(n) == SubSeq(ViewportPresets, 1, n)

\* What compare can hand back for the page rendered at a viewport of a
\* responsive job: the site under test may or may not drift from the design
\* on mobile, matches it on tablet and is off by one element elsewhere.
ViewportOutcomes(name) ==
    IF name = "mobile" THEN CompareOutcomes
    ELSE IF name = "tablet" THEN {[match_score |-> 1000, differences |-> 0]}
    ELSE {[match_score |-> 920, differences |-> 1]}

Str(n) == << "0", "1", "2", "3", "4", "5", "6", "7", "8", "9" >>[n + 1]

\* -------------------------------------------------------- dict primitives
DictSet(d, k, v) == [x \in (DOMAIN d) \cup {k} |-> IF x = k THEN v ELSE d[x]]

DictPop(d, k) == [x \in (DOMAIN d) \ {k} |-> d[x]]

DictGet(d, k, default) == IF k \in DOMAIN d THEN d[k] ELSE default

EmptyDict == [x \in {} |-> NoneVal]

\* ------------------------------------------------------------------ state
VARIABLES
    pc,                  \* position of each job's background task
    kind,                \* "single" | "responsive", per accepted job id
    options,             \* request options of the job
    viewports,           \* requested viewport list of a responsive job
    caught,              \* str(e) of the exception the task caught
    figma_data,          \* local: extraction output
    website_data,        \* local: renderer output
    report,              \* local: DiffReport returned by compare
    viewport_results,    \* local: list of ViewportResult
    vp_index,            \* local: loop index i
    extract_calls,       \* how many times extract_from_url was called
    in_memory_progress,  \* JobStorage._in_memory_progress
    in_memory_results,   \* JobStorage._in_memory_results
    jobs_table,          \* rows of the jobs table (db/models.py Job)
    db_up,               \* whether the jobs database answers in this run
    comparisons,         \* rows of the history comparisons table
    viewport_rows,       \* rows of the history viewport_results table
    files,               \* files under OUTPUT_DIR/<job_id>
    response,            \* last HTTP response of a report/progress endpoint
    figma_cache,         \* figma_extractor._figma_cache
    now,                 \* datetime.now(), in minutes
    last_fetch,          \* what the last step did, if it was an Extractor fetch
    request_log,         \* the design-API requests of that fetch
    extraction,          \* the extract_from_url call in progress
    hash_seed,           \* the string hash seed of the running worker process
    comparison,          \* the last UIComparator.compare call and its report
    earlier,             \* the call before it, when it had the same inputs
    capture,             \* the capture_screenshot call in progress and its page
    written,             \* history: the last update set_progress took, per job
    deleted,             \* history: the job ids delete_job has returned for
    active_connections,  \* ConnectionManager.active_connections
    handlers,            \* each websocket_progress call: its position and socket
    job_progress,        \* api/endpoints.py job_progress, read by the handlers
    deliveries,          \* history: << handler, socket >> of every send_json
    cache_calls          \* each job's call of a cache function and its locals

taskVars == << pc, kind, options, viewports, caught, figma_data, website_data,
               report, viewport_results, vp_index, extract_calls >>
storeVars == << in_memory_progress, in_memory_results, jobs_table >>
historyVars == << comparisons, viewport_rows >>
cacheVars == << figma_cache, now, last_fetch >>
\* left alone by every step of the job pipeline and its endpoints
extractVars == << request_log, extraction >>
compareVars == << hash_seed, comparison, earlier >>
renderVars == << capture >>
auditVars == << written, deleted >>
wsVars == << active_connections, handlers, job_progress, deliveries >>
sideVars == << auditVars, wsVars, cache_calls >>
envVars == << db_up, cacheVars, extractVars, compareVars, renderVars, sideVars >>
\* left alone by every step of the design-API cache
jobVars ==
    << taskVars, storeVars, historyVars, files, response, db_up, compareVars,
       renderVars, sideVars >>
vars == << taskVars, storeVars, historyVars, files, response, envVars >>


\* ---------------------------------------------------- cache function calls
\* the jobs that use the module-level cache
CacheJobs == 1 .. 2

\* A call of get_cached_response, set_cached_response or
\* clear_cache_for_file by a job: its position, arguments and locals.
Call(at, op, cache_key, file_key, cached, keys, result, error) ==
    [pc |-> at, op |-> op, cache_key |-> cache_key, file_key |-> file_key,
     cached |-> cached, keys |-> keys, result |-> result, error |-> error]

NoCall == Call("idle", NoneVal, NoneVal, NoneVal, << >>, {}, NoneVal, NoneVal)

\* ------------------------------------------------------------- websocket
\* the client connections of the progress socket
Sockets == 1 .. 2

\* a websocket_progress call: not made, or at one of its awaits, or ended
NoHandler == [pc |-> "idle", job_id |-> 0, open |-> FALSE]

\* --------------------------------------------------------------- schemas
ProgressUpdate(job_id, status, progress, message, current_step) ==
    [job_id |-> job_id, status |-> status, progress |-> progress,
     message |-> message, current_step |-> current_step]

\* DiffReport: summary.match_score, len(differences), status, error.
DiffReport(job_id, status, match_score, differences, error) ==
    [job_id |-> job_id, status |-> status, match_score |-> match_score,
     differences |-> differences, error |-> error]

\* ProgressUpdate(**data): job_id, status and message are required fields,
\* progress and current_step have defaults, unknown keys are ignored.
ValidProgressData(data) ==
    /\ {"job_id", "status", "message"} \subseteq DOMAIN data
    /\ data["message"] # NoneVal
    /\ DictGet(data, "progress", 0) \in 0 .. 100

ParseProgress(data) ==
    ProgressUpdate(data["job_id"], data["status"], DictGet(data, "progress", 0),
                   data["message"], DictGet(data, "current_step", NoneVal))

\* ------------------------------------------------------------ JobStorage
NewJobRow ==
    [status |-> "pending", progress_percent |-> 0, progress_step |-> NoneVal,
     progress_message |-> NoneVal, result_json |-> << >>]

ProgressRow(job_id, data) ==
    LET job == DictGet(jobs_table, job_id, NewJobRow)
    IN  [job EXCEPT !.progress_percent = DictGet(data, "percent", 0),
                    !.progress_step = DictGet(data, "step", NoneVal),
                    !.progress_message = DictGet(data, "message", NoneVal),
                    !.status = IF DictGet(data, "percent", 0) < 100
                               THEN "running" ELSE "completed"]

\* JobStorage.set_progress: the in-memory entry is always replaced; the row
\* is written unless the database raises, which is logged and swallowed.
set_progress(job_id, progress) ==
    /\ in_memory_progress' = DictSet(in_memory_progress, job_id, progress)
    /\ jobs_table' = IF db_up
                     THEN DictSet(jobs_table, job_id, ProgressRow(job_id, progress))
                     ELSE jobs_table

ResultRow(job_id, data) ==
    LET job == DictGet(jobs_table, job_id, NewJobRow)
    IN  [job EXCEPT !.result_json = << data >>,
                    !.status = "completed",
                    !.progress_percent = 100]

\* JobStorage.set_result
set_result(job_id, data) ==
    /\ in_memory_results' = DictSet(in_memory_results, job_id, data)
    /\ jobs_table' = IF db_up
                     THEN DictSet(jobs_table, job_id, ResultRow(job_id, data))
                     ELSE jobs_table

\* The dict JobStorage.get_progress rebuilds from a row.
RowProgressData(job) ==
    [percent |-> job.progress_percent, step |-> job.progress_step,
     message |-> job.progress_message, details |-> NoneVal,
     status |-> job.status]

\* Faulty variant of ProgressData: the row is read before the in-memory entry.
ProgressData_row_first(job_id) ==
    IF db_up /\ job_id \in DOMAIN jobs_table
    THEN << RowProgressData(jobs_table[job_id]) >>
    ELSE IF job_id \in DOMAIN in_memory_progress
         THEN << in_memory_progress[job_id] >>
         ELSE << >>

\* JobStorage.get_progress, the data it finds: << >> is None.
ProgressData(job_id) ==
    IF job_id \in DOMAIN in_memory_progress
    THEN << in_memory_progress[job_id] >>
    ELSE IF db_up /\ job_id \in DOMAIN jobs_table
         THEN << RowProgressData(jobs_table[job_id]) >>
         ELSE << >>

\* ... and the cache it leaves behind.
ProgressCacheAfterGet(job_id) ==
    IF job_id \notin DOMAIN in_memory_progress /\ db_up
       /\ job_id \in DOMAIN jobs_table
    THEN DictSet(in_memory_progress, job_id, RowProgressData(jobs_table[job_id]))
    ELSE in_memory_progress

\* JobStorage.get_result, the data it finds: << >> is None.
ResultData(job_id) ==
    IF job_id \in DOMAIN in_memory_results
    THEN << in_memory_results[job_id] >>
    ELSE IF db_up /\ job_id \in DOMAIN jobs_table
         THEN jobs_table[job_id].result_json
         ELSE << >>

ResultCacheAfterGet(job_id) ==
    IF job_id \notin DOMAIN in_memory_results /\ ResultData(job_id) # << >>
    THEN DictSet(in_memory_results, job_id, ResultData(job_id)[1])
    ELSE in_memory_results

\* ----------------------------------------------------- ComparisonHistory
\* A Python float kept exactly: num / den.
Frac(num, den) == [num |-> num, den |-> den]

\* ComparisonHistory.save_comparison: INSERT with status 'processing'.
save_comparison(job_id, viewport_name) ==
    DictSet(comparisons, job_id,
            [status |-> "processing", viewport_name |-> viewport_name,
             match_score |-> Frac(0, 1), total_differences |-> 0])

\* ComparisonHistory.update_comparison_result: UPDATE ... WHERE job_id = ?
update_comparison_result(job_id, match_score, total_differences, status) ==
    IF job_id \in DOMAIN comparisons
    THEN [comparisons EXCEPT ![job_id].match_score = match_score,
                             ![job_id].total_differences = total_differences,
                             ![job_id].status = status]
    ELSE comparisons

\* ComparisonHistory.save_viewport_result: INSERT INTO viewport_results
save_viewport_result(comparison_id, viewport_name, match_score, total_differences) ==
    Append(viewport_rows,
           [comparison_id |-> comparison_id, viewport_name |-> viewport_name,
            match_score |-> match_score, total_differences |-> total_differences])

\* ------------------------------------------------------------ event loop
\* A background task runs on the event loop and gives it up only at an
\* await (analyze_website_async) or when it ends; handlers and other tasks
\* run only then.
YieldPcs == {"none", "queued", "s_render", "r_render", "done", "crashed"}

LoopFreeFor(job_id) == \A k \in JobIds \ {job_id} : pc[k] \in YieldPcs

LoopFree == \A k \in JobIds : pc[k] \in YieldPcs

Goto(job_id, label) == pc' = [pc EXCEPT ![job_id] = label]

\* An exception with message m reaches the task's except clause.
Raise(job_id, m) ==
    /\ pc' = [pc EXCEPT ![job_id] = IF kind[job_id] = "single"
                                     THEN "s_except" ELSE "r_except"]
    /\ caught' = [caught EXCEPT ![job_id] = m]

\* -------------------------------------------------------------- responses
\* response holds what the last step returned to an HTTP client; a step of
\* a background task returns nothing.
Resp(op, job_id, code, body) ==
    [op |-> op, job_id |-> job_id, code |-> code, body |-> body]

NoResponse == Resp(NoneVal, 0, 0, EmptyDict)

\* HTTPException(status_code, detail)
Detail(text) == [detail |-> text]

ComparisonResponse(job_id, status) == [job_id |-> job_id, status |-> status]

\* ------------------------------------------------ figma_extractor cache
CACHE_DURATION_MINUTES == 30

\* FigmaExtractor.__init__: self.use_cache = True
use_cache == TRUE

FileKeys == {"AbC123"}
NodeIds == {"1:2"}

\* response.json() of a 200 answer: a non-empty document
Payloads == {"document v1", "document v2"}

\* status codes the design API answers with
Statuses == {200, 429, 500}

\* bool(x) of a payload or None
Truthy(x) == x \notin {NoneVal, "", "{}"}

\* get_cache_key: md5 of the parts joined by ":"; the digest is taken to be
\* injective and the joined string stands for it.
get_cache_key(file_key, node_id, endpoint) ==
    IF Truthy(node_id)
    THEN file_key \o ":" \o endpoint \o ":" \o node_id
    ELSE file_key \o ":" \o endpoint

CacheEntry(data, timestamp, file_key) ==
    [data |-> data, timestamp |-> timestamp, file_key |-> file_key]

\* Faulty variant of Fresh: an entry exactly CACHE_DURATION_MINUTES old
\* still counts.
Fresh_inclusive(cached) == now - cached.timestamp <= CACHE_DURATION_MINUTES

\* the test of get_cached_response on an entry
Fresh(cached) == now - cached.timestamp < CACHE_DURATION_MINUTES

\* get_cached_response: the value it returns ...
get_cached_response(cache_key) ==
    IF cache_key \in DOMAIN figma_cache /\ Fresh(figma_cache[cache_key])
    THEN figma_cache[cache_key].data
    ELSE NoneVal

\* ... and the cache it leaves: an expired entry is deleted.
CacheAfterLookup(cache_key) ==
    IF cache_key \in DOMAIN figma_cache /\ ~Fresh(figma_cache[cache_key])
    THEN DictPop(figma_cache, cache_key)
    ELSE figma_cache

set_cached_response(cache, cache_key, data, file_key) ==
    DictSet(cache, cache_key, CacheEntry(data, now, file_key))

\* What a fetch did: the entry it found under its key (<< >> if none), the
\* number of requests it sent, where its value came from, and the value it
\* returned or the message of the exception it raised.
Fetch(op, cache_key, force_refresh, found, at, requests, source, outcome, data) ==
    [op |-> op, cache_key |-> cache_key, force_refresh |-> force_refresh,
     found |-> found, at |-> at, requests |-> requests, source |-> source,
     outcome |-> outcome, data |-> data]

NoFetch ==
    Fetch(NoneVal, NoneVal, FALSE, << >>, 0, 0, NoneVal, NoneVal, NoneVal)

Found(cache_key) ==
    IF cache_key \in DOMAIN figma_cache THEN << figma_cache[cache_key] >>
    ELSE << >>

\* str(e) of the HTTPError raise_for_status raises
HttpErrorMessage(status) ==
    IF status = 429 THEN "429 Client Error: Too Many Requests for url"
    ELSE "500 Server Error: Internal Server Error for url"

\* the ValueError get_file_data raises on a 429
RateLimitMessage ==
    "Figma API rate limit exceeded. Please wait 1-2 minutes and try again."

max_retries == 3
base_delay == 30

\* What the API would answer to the successive requests of one call: some
\* 429s, then one status for good.
ServerScripts ==
    { [i \in 1 .. max_retries + 1 |-> IF i <= k THEN 429 ELSE final] :
          k \in 0 .. max_retries, final \in Statuses }

RECURSIVE make_request_with_retry(_, _)
\* FigmaExtractor._make_request_with_retry from attempt on: the status it
\* ends with (200: the response is returned, else HTTPError is raised), the
\* requests it sent and the delays it slept, in seconds.
make_request_with_retry(attempt, statuses) ==
    IF statuses[attempt + 1] = 429 /\ attempt < max_retries
    THEN LET rest == make_request_with_retry(attempt + 1, statuses)
         IN  [status |-> rest.status, requests |-> rest.requests + 1,
              delays |-> << base_delay * (2 ^ attempt) >> \o rest.delays]
    ELSE [status |-> statuses[attempt + 1], requests |-> 1, delays |-> << >>]

\* The requests one fetch sent: the status each was answered with and the
\* delays slept between them, in seconds.
Requests(op, answers, delays) ==
    [op |-> op, answers |-> answers, delays |-> delays]

NoRequests == Requests(NoneVal, << >>, << >>)

\* ... of the fetch last_fetch' describes: none when the cache served it.
RequestsOf(fetch, answers, delays) ==
    IF fetch.source = "cache" THEN NoRequests
    ELSE Requests(fetch.op, answers, delays)

\* Faulty variant of CachedFetch: a failing request drops the entry under
\* its key.
CachedFetch_dropping(op, cache_key, file_key, force_refresh, status, requests, data, error) ==
    LET lookup == use_cache /\ ~force_refresh
        cached == IF lookup THEN get_cached_response(cache_key) ELSE NoneVal
        cache == IF lookup THEN CacheAfterLookup(cache_key) ELSE figma_cache
        found == Found(cache_key)
    IN  IF Truthy(cached)
        THEN /\ figma_cache' = cache
             /\ last_fetch' = Fetch(op, cache_key, force_refresh, found, now, 0,
                                    "cache", "returned", cached)
        ELSE IF status = 200
        THEN /\ figma_cache' = IF use_cache
                               THEN set_cached_response(cache, cache_key, data,
                                                        file_key)
                               ELSE cache
             /\ last_fetch' = Fetch(op, cache_key, force_refresh, found, now,
                                    requests, "network", "returned", data)
        ELSE /\ figma_cache' = DictPop(cache, cache_key)
             /\ last_fetch' = Fetch(op, cache_key, force_refresh, found, now,
                                    requests, "network", "raised", error)

\* The cache lookup that opens get_file_data and get_node_data, and what
\* follows it: the cached value returned, or the answer of the API stored
\* and returned, or the exception raised.
CachedFetch(op, cache_key, file_key, force_refresh, status, requests, data, error) ==
    LET lookup == use_cache /\ ~force_refresh
        cached == IF lookup THEN get_cached_response(cache_key) ELSE NoneVal
        cache == IF lookup THEN CacheAfterLookup(cache_key) ELSE figma_cache
        found == Found(cache_key)
    IN  IF Truthy(cached)
        THEN /\ figma_cache' = cache
             /\ last_fetch' = Fetch(op, cache_key, force_refresh, found, now, 0,
                                    "cache", "returned", cached)
        ELSE IF status = 200
        THEN /\ figma_cache' = IF use_cache
                               THEN set_cached_response(cache, cache_key, data,
                                                        file_key)
                               ELSE cache
             /\ last_fetch' = Fetch(op, cache_key, force_refresh, found, now,
                                    requests, "network", "returned", data)
        ELSE /\ figma_cache' = cache
             /\ last_fetch' = Fetch(op, cache_key, force_refresh, found, now,
                                    requests, "network", "raised", error)

\* The body of FigmaExtractor.get_file_data: one request, no retry.
FileFetch(file_key, force_refresh) ==
    \E status \in Statuses, data \in Payloads :
        /\ CachedFetch("get_file_data", get_cache_key(file_key, NoneVal, "file"),
                       file_key, force_refresh, status, 1, data,
                       IF status = 429 THEN RateLimitMessage
                       ELSE HttpErrorMessage(status))
        /\ request_log' = RequestsOf(last_fetch', << status >>, << >>)

\* FigmaExtractor.get_file_data called on its own
get_file_data(file_key, force_refresh) ==
    /\ FileFetch(file_key, force_refresh)
    /\ UNCHANGED << now, jobVars, extraction >>

\* FigmaExtractor.get_node_data: requests through _make_request_with_retry.
get_node_data(file_key, node_id, force_refresh) ==
    /\ \E statuses \in ServerScripts, data \in Payloads :
         LET answer == make_request_with_retry(0, statuses)
         IN  /\ CachedFetch("get_node_data",
                         get_cache_key(file_key, node_id, "node"),
                         file_key, force_refresh, answer.status,
                         answer.requests, data, HttpErrorMessage(answer.status))
             /\ request_log' = RequestsOf(last_fetch',
                                  SubSeq(statuses, 1, answer.requests),
                                  answer.delays)
    /\ UNCHANGED << now, jobVars, extraction >>

\* ------------------------------------------ FigmaExtractor.extract_from_url
\* A URL is the sequence of the parts its slashes separate.
FigmaUrls ==
    { << "https:", "", "www.figma.com", "file", "AbC123", "Landing" >>,
      << "https:", "", "www.figma.com", "design", "AbC123", "Landing" >>,
      << "https:", "", "www.figma.com", "proto", "AbC123", "Landing" >>,
      << "https:", "", "www.figma.com", "file", "" >> }

\* "/<word>/" in figma_url, and figma_url.split("/<word>/")[1].split("/")[0]
Marks(figma_url, word) ==
    {i \in 2 .. Len(figma_url) - 1 : figma_url[i] = word}

PartAfter(figma_url, word) ==
    figma_url[(CHOOSE i \in Marks(figma_url, word) :
                  \A k \in Marks(figma_url, word) : i <= k) + 1]

\* FigmaExtractor.extract_file_key
extract_file_key(figma_url) ==
    IF Marks(figma_url, "file") # {} THEN PartAfter(figma_url, "file")
    ELSE IF Marks(figma_url, "design") # {} THEN PartAfter(figma_url, "design")
    ELSE NoneVal

\* The ids of the nodes of a document and of its top-level children.
NodesOf(document) ==
    IF document = "document v1" THEN {"0:1", "1:2"} ELSE {"0:1"}

ChildrenOf(document) == {"0:1"}

\* data.get("images", {}) of a 200 answer of the images endpoint
ImageUrls == {"image urls"}

InvalidReferenceMessage == "Could not extract file key from URL"

NodeNotFoundMessage(node_id) == "Node " \o node_id \o " not found in file"

\* An extract_from_url call: where it is, its arguments, what it has found
\* and the fetches it has made, each with the number of requests it sent.
Extraction(position, figma_url, node_id, output_dir, file_key, document, export_id, fetches, error) ==
    [pc |-> position, figma_url |-> figma_url, node_id |-> node_id,
     output_dir |-> output_dir, file_key |-> file_key, document |-> document,
     export_id |-> export_id, fetches |-> fetches, error |-> error]

NoExtraction ==
    Extraction("idle", << >>, NoneVal, FALSE, NoneVal, NoneVal, NoneVal, << >>,
               NoneVal)

FetchMade(fetch) == [op |-> fetch.op, requests |-> fetch.requests]

\* figma_extractor.py:482-490  the call starts; no file key, no request
ex_begin(figma_url, node_id, output_dir) ==
    /\ extraction.pc \in {"idle", "returned", "raised"}
    /\ LET file_key == extract_file_key(figma_url)
           call == Extraction("get_file_data", figma_url, node_id, output_dir,
                              file_key, NoneVal, NoneVal, << >>, NoneVal)
       IN  extraction' =
               IF Truthy(file_key) THEN call
               ELSE [call EXCEPT !.pc = "raised",
                                 !.error = InvalidReferenceMessage]
    /\ last_fetch' = NoFetch
    /\ request_log' = NoRequests
    /\ UNCHANGED << figma_cache, now, jobVars >>

\* figma_extractor.py:492-497  file_data = self.get_file_data(file_key)
ex_get_file_data ==
    /\ extraction.pc = "get_file_data"
    /\ FileFetch(extraction.file_key, FALSE)
    /\ extraction' =
           IF last_fetch'.outcome = "returned"
           THEN [extraction EXCEPT !.pc = "find_node",
                                   !.document = last_fetch'.data,
                                   !.fetches = Append(@, FetchMade(last_fetch'))]
           ELSE [extraction EXCEPT !.pc = "raised",
                                   !.error = last_fetch'.data,
                                   !.fetches = Append(@, FetchMade(last_fetch'))]
    /\ UNCHANGED << now, jobVars >>

\* Faulty variant of ex_find_node: a missing node is not noticed.
ex_find_node_unchecked ==
    /\ extraction.pc = "find_node"
    /\ extraction' =
           [extraction EXCEPT !.pc = IF extraction.output_dir
                                     THEN "export_image" ELSE "returned",
                              !.export_id = "0:1"]
    /\ last_fetch' = NoFetch
    /\ request_log' = NoRequests
    /\ UNCHANGED << figma_cache, now, jobVars >>

\* figma_extractor.py:499-515  target node or top-level children, tokens
ex_find_node ==
    /\ extraction.pc = "find_node"
    /\ LET wanted == extraction.node_id
           missing == Truthy(wanted) /\ wanted \notin NodesOf(extraction.document)
           export_ids == IF Truthy(wanted) THEN {wanted}
                         ELSE ChildrenOf(extraction.document)
           export_id == CHOOSE id \in export_ids : TRUE
       IN  extraction' =
               IF missing
               THEN [extraction EXCEPT !.pc = "raised",
                                       !.error = NodeNotFoundMessage(wanted)]
               ELSE [extraction EXCEPT
                        !.pc = IF extraction.output_dir /\ export_ids # {}
                               THEN "export_image" ELSE "returned",
                        !.export_id = export_id]
    /\ last_fetch' = NoFetch
    /\ request_log' = NoRequests
    /\ UNCHANGED << figma_cache, now, jobVars >>

\* The body of FigmaExtractor.export_image up to the image URLs: the cache,
\* else the images endpoint through _make_request_with_retry.
ImagesFetch(file_key, node_ids) ==
    \E statuses \in ServerScripts, image_urls \in ImageUrls :
        LET answer == make_request_with_retry(0, statuses)
        IN  /\ CachedFetch("export_image",
                           get_cache_key(file_key, node_ids, "images_2_png"),
                           file_key, FALSE, answer.status, answer.requests,
                           image_urls, HttpErrorMessage(answer.status))
            /\ request_log' = RequestsOf(last_fetch',
                                         SubSeq(statuses, 1, answer.requests),
                                         answer.delays)

\* figma_extractor.py:517-521, 217-290  export_image, then the download of
\* each image that is not on disk yet: requests.get, raise_for_status.
ex_export_image ==
    /\ extraction.pc = "export_image"
    /\ ImagesFetch(extraction.file_key, extraction.export_id)
    /\ \E download \in {200, 500} :
         extraction' =
            IF last_fetch'.outcome = "raised"
            THEN [extraction EXCEPT !.pc = "raised",
                                    !.error = last_fetch'.data,
                                    !.fetches = Append(@, FetchMade(last_fetch'))]
            ELSE IF download # 200
            THEN [extraction EXCEPT !.pc = "raised",
                                    !.error = HttpErrorMessage(download),
                                    !.fetches = Append(@, FetchMade(last_fetch'))]
            ELSE [extraction EXCEPT !.pc = "returned",
                                    !.fetches = Append(@, FetchMade(last_fetch'))]
    /\ UNCHANGED << now, jobVars >>

\* clear_cache_for_file
clear_cache_for_file(file_key) ==
    /\ figma_cache' = [k \in {c \in DOMAIN figma_cache :
                                 figma_cache[c].file_key # file_key}
                          |-> figma_cache[k]]
    /\ last_fetch' = NoFetch
    /\ request_log' = NoRequests
    /\ UNCHANGED << now, jobVars, extraction >>

\* Time passes.
Tick ==
    /\ now + ClockStep <= MaxTime
    /\ now' = now + ClockStep
    /\ last_fetch' = NoFetch
    /\ request_log' = NoRequests
    /\ UNCHANGED << figma_cache, jobVars, extraction >>

\* ------------------------------------------------------------------ Init
\* ---------------------------------------------------- utils/color_utils.py
\* A color string is the sequence of its characters.
HexDigits ==
    << "0", "1", "2", "3", "4", "5", "6", "7", "8", "9",
       "a", "b", "c", "d", "e", "f" >>

UpperHexDigits == << "A", "B", "C", "D", "E", "F" >>

\* str.lower() of one character and of a string
LowerChar(ch) ==
    IF \E i \in DOMAIN UpperHexDigits : UpperHexDigits[i] = ch
    THEN HexDigits[10 + (CHOOSE i \in DOMAIN UpperHexDigits : UpperHexDigits[i] = ch)]
    ELSE ch

Lower(string) == [i \in DOMAIN string |-> LowerChar(string[i])]

\* hex_color.lstrip('#')
RECURSIVE lstrip(_)
lstrip(string) ==
    IF string # << >> /\ Head(string) = "#" THEN lstrip(Tail(string)) ELSE string

IsHexDigit(ch) == \E i \in DOMAIN HexDigits : HexDigits[i] = LowerChar(ch)

HexValue(ch) == (CHOOSE i \in DOMAIN HexDigits : HexDigits[i] = LowerChar(ch)) - 1

\* string[first:last] with Python's bounds, first and last counted from 0
Slice(string, first, last) ==
    SubSeq(string, first + 1, IF last < Len(string) THEN last ELSE Len(string))

\* int(string, 16) of a slice of at most two characters; -1: ValueError
IntBase16(string) ==
    IF string = << >> \/ \E i \in DOMAIN string : ~IsHexDigit(string[i]) THEN -1
    ELSE IF Len(string) = 1 THEN HexValue(string[1])
    ELSE 16 * HexValue(string[1]) + HexValue(string[2])

\* hex_to_rgb: the (r, g, b) tuple, or << >> when it raises ValueError
hex_to_rgb(hex_color) ==
    LET stripped == lstrip(hex_color)
        digits == IF Len(stripped) = 3
                  THEN << stripped[1], stripped[1], stripped[2], stripped[2],
                          stripped[3], stripped[3] >>
                  ELSE stripped
        rgb == << IntBase16(Slice(digits, 0, 2)), IntBase16(Slice(digits, 2, 4)),
                  IntBase16(Slice(digits, 4, 6)) >>
    IN  IF \E i \in 1 .. 3 : rgb[i] = -1 THEN << >> ELSE rgb

\* Products of two naturals below 2^30, as three digits to the base 2^15,
\* and their comparison.
Limb == 32768

Product(a, b) ==
    LET a1 == a \div Limb  a0 == a % Limb
        b1 == b \div Limb  b0 == b % Limb
        low == a0 * b0
        middle == a1 * b0 + a0 * b1 + (low \div Limb)
    IN  << a1 * b1 + (middle \div Limb), middle % Limb, low % Limb >>

ProductLeq(x, y) ==
    \/ x[1] < y[1]
    \/ x[1] = y[1] /\ x[2] < y[2]
    \/ x[1] = y[1] /\ x[2] = y[2] /\ x[3] <= y[3]

\* color_distance(color1, color2, "perceptual"): 512 times the square of the
\* distance, which is the integer
\*   (1024 + r1 + r2) * r_diff^2 + 2048 * g_diff^2 + (1534 - r1 - r2) * b_diff^2
color_distance(color1, color2) ==
    LET r_sum == color1[1] + color2[1]
        r_diff == color1[1] - color2[1]
        g_diff == color1[2] - color2[2]
        b_diff == color1[3] - color2[3]
    IN  (1024 + r_sum) * r_diff * r_diff + 2048 * g_diff * g_diff
            + (1534 - r_sum) * b_diff * b_diff

max_distance == color_distance(<< 0, 0, 0 >>, << 255, 255, 255 >>)

\* n - 1/2 <= 100 * distance, for a distance given as color_distance gives it:
\* (2n - 1)^2 * 8 <= 625 * (512 * distance^2)
DistanceAtLeast(n, squared) ==
    n = 0 \/ ProductLeq(Product(2 * n - 1, 8 * (2 * n - 1)), Product(625, squared))

\* n - 1/2 <= 100 * (distance / max_distance * 100):
\* (2n - 1)^2 * max^2 <= 4 * 10^8 * distance^2
DeltaAtLeast(n, squared) ==
    n = 0 \/ ProductLeq(Product((2 * n - 1) * (2 * n - 1), max_distance),
                        Product(400000000, squared))

RECURSIVE Rounded(_, _, _, _)
\* round(x, 2) in hundredths: the largest n of low .. high that x reaches,
\* for x the distance (of = "distance") or the delta percentage.
Rounded(of, squared, low, high) ==
    IF low = high THEN low
    ELSE LET middle == (low + high + 1) \div 2
         IN  IF (IF of = "distance" THEN DistanceAtLeast(middle, squared)
                 ELSE DeltaAtLeast(middle, squared))
             THEN Rounded(of, squared, middle, high)
             ELSE Rounded(of, squared, low, middle - 1)

\* config.py COLOR_TOLERANCE, ToleranceConfig.color
color_tolerance == 5

\* ColorAnalyzer.compare_colors: distance and delta_percentage in hundredths
compare_colors(color1, color2) ==
    LET squared == color_distance(color1, color2)
    IN  [distance |-> Rounded("distance", squared, 0, 76500),
         delta_percentage |-> Rounded("delta", squared, 0, 10000),
         is_match |-> squared <= 512 * color_tolerance * color_tolerance]

\* ---------------------------------------------------- services/comparator.py
\* The order in which a process iterates over a set of strings follows their
\* hashes, which the process draws from its hash seed when it starts: here the
\* order of the universe under seed 0 and the reverse of it otherwise.
Seeds == 0 .. 1

SetOrder(set, universe, seed) ==
    LET present == {i \in DOMAIN universe : universe[i] \in set}
        n == Cardinality(present)
        nth(k) == CHOOSE i \in present : Cardinality({j \in present : j < i}) = k - 1
    IN  [k \in 1 .. n |-> universe[IF seed = 0 THEN nth(k) ELSE nth(n + 1 - k)]]

\* schemas.Difference without its id, a uuid4 drawn anew for every entry.
\* Values are sequences: a color's characters, << name >>, << number, unit >>,
\* << >> for None.
Difference(type, severity, figma_value, website_value, delta, description) ==
    [type |-> type, severity |-> severity, figma_value |-> figma_value,
     website_value |-> website_value, delta |-> delta,
     description |-> description]

\* f"{x:.1f}" of a number given in hundredths, in tenths
OneDecimal(hundredths) ==
    IF hundredths >= 0 THEN (hundredths + 5) \div 10
    ELSE 0 - ((5 - hundredths) \div 10)

\* _compare_colors, lines 157-165: the two sets of lowercased colors
FigmaColors(design) ==
    UNION { { Lower(token.fills[k].color) :
                k \in {k \in DOMAIN token.fills :
                          /\ token.fills[k].type = "SOLID"
                          /\ token.fills[k].color # << >>} } :
            token \in {design.design_tokens[i] :
                          i \in DOMAIN design.design_tokens} }

WebsiteColors(site) ==
    {Lower(site.colors[i]) : i \in DOMAIN site.colors}

\* The lowercased color strings of the designs and sites below.
ColorUniverse ==
    << << "#", "7", "c", "3", "a", "e", "d" >>,
       << "#", "1", "0", "b", "9", "8", "1" >>,
       << "#", "7", "b", "3", "a", "e", "a" >>,
       << "#", "7", "c", "3", "a", "e", "b" >> >>

\* hex_to_rgb and compare_colors over the colors of the universe, computed
\* once
Rgb ==
    [color \in {ColorUniverse[i] : i \in DOMAIN ColorUniverse} |->
        hex_to_rgb(color)]

ColorComparisons ==
    LET rgbs == {Rgb[color] : color \in DOMAIN Rgb}
    IN  [color1 \in rgbs, color2 \in rgbs |-> compare_colors(color1, color2)]

RECURSIVE NearestSiteColor(_, _, _, _, _)
\* _compare_colors, lines 173-191: the loop over the site colors from the
\* i-th on; closest_color is << >> while min_distance is infinite.
NearestSiteColor(figma_rgb, site, i, closest_color, min_distance) ==
    LET further(closest, distance) ==
            NearestSiteColor(figma_rgb, site, i + 1, closest, distance)
        compared(result) ==
            IF result.is_match
            THEN [matched |-> TRUE, closest_color |-> closest_color]
            ELSE IF closest_color = << >> \/ result.distance < min_distance
            THEN further(<< site[i] >>, result.distance)
            ELSE further(closest_color, min_distance)
    IN  IF i > Len(site)
        THEN [matched |-> FALSE, closest_color |-> closest_color]
        ELSE IF Rgb[site[i]] = << >> THEN further(closest_color, min_distance)
        ELSE compared(ColorComparisons[figma_rgb, Rgb[site[i]]])

\* Faulty variant of ColorDifference: the first site color, not the closest.
ColorDifference_first(figma_color, site) ==
    LET entry(result) ==
            IF result.is_match THEN << >>
            ELSE << Difference("color",
                               IF result.delta_percentage < 1000
                               THEN "warning" ELSE "critical",
                               figma_color, site[1],
                               << OneDecimal(result.delta_percentage),
                                  "% difference" >>,
                               "Color mismatch") >>
    IN  IF Rgb[figma_color] = << >> \/ site = << >> \/ Rgb[site[1]] = << >>
        THEN << >>
        ELSE entry(ColorComparisons[Rgb[figma_color], Rgb[site[1]]])

\* _compare_colors, lines 169-210: the entries one design color adds
ColorDifference(figma_color, site) ==
    LET entry(closest_color, result) ==
            << Difference("color",
                          IF result.delta_percentage < 1000
                          THEN "warning" ELSE "critical",
                          figma_color, closest_color,
                          << OneDecimal(result.delta_percentage),
                             "% difference" >>,
                          "Color mismatch") >>
        entries(found) ==
            IF found.matched \/ found.closest_color = << >> THEN << >>
            ELSE entry(found.closest_color[1],
                       ColorComparisons[Rgb[figma_color],
                                        Rgb[found.closest_color[1]]])
    IN  IF Rgb[figma_color] = << >> THEN << >>
        ELSE entries(NearestSiteColor(Rgb[figma_color], site, 1, << >>, 0))

RECURSIVE ColorDifferences(_, _, _)
ColorDifferences(design, i, site) ==
    IF i > Len(design) THEN << >>
    ELSE ColorDifference(design[i], site) \o ColorDifferences(design, i + 1, site)

FontUniverse == << "Inter", "Roboto" >>

\* _compare_colors
compare_colors_pass(design, site, seed) ==
    ColorDifferences(SetOrder(FigmaColors(design), ColorUniverse, seed), 1,
                     SetOrder(WebsiteColors(site), ColorUniverse, seed))

\* _compare_typography: one entry per design font family the site lacks
compare_typography(design, site, seed) ==
    LET tokens == design.design_tokens
        figma_families ==
            {tokens[i].typography[1].font_family :
                i \in {i \in DOMAIN tokens :
                          /\ tokens[i].typography # << >>
                          /\ Truthy(tokens[i].typography[1].font_family)}}
        website_families == {site.fonts[i].family : i \in DOMAIN site.fonts}
        missing_fonts ==
            SetOrder(figma_families \ website_families, FontUniverse, seed)
    IN  [k \in DOMAIN missing_fonts |->
            Difference("typography", "critical", << missing_fonts[k] >>, << >>,
                       << >>, "Font family from Figma not found on website")]

\* config.py SPACING_TOLERANCE, which the tasks pass for both tolerances
spacing_tolerance == 2
dimension_tolerance == 2

RECURSIVE SortedByX(_)
\* sorted(elements, key=lambda e: e.get("x", 0)), a stable sort
SortedByX(elements) ==
    IF elements = << >> THEN << >>
    ELSE LET n == Len(elements)
             before == SortedByX(SubSeq(elements, 1, n - 1))
             last == elements[n]
             k == Cardinality({i \in DOMAIN before : before[i].x <= last.x})
         IN  SubSeq(before, 1, k) \o << last >> \o SubSeq(before, k + 1, n - 1)

\* layout_utils.calculate_spacing(..., "horizontal")["primary_spacing"]
calculate_spacing(box1, box2) ==
    IF box1.x + box1.width < box2.x THEN box2.x - (box1.x + box1.width)
    ELSE IF box2.x + box2.width < box1.x THEN box1.x - (box2.x + box2.width)
    ELSE 0

\* LayoutAnalyzer.calculate_spacing_consistency(...)["consistent"]: no
\* spacing further than the tolerance from the mean of the spacings
calculate_spacing_consistency(elements) ==
    IF Len(elements) < 3 THEN FALSE
    ELSE LET sorted_elements == SortedByX(elements)
             count == Len(elements) - 1
             spacings == [i \in 1 .. count |->
                            calculate_spacing(sorted_elements[i],
                                              sorted_elements[i + 1])]
             RECURSIVE Sum(_)
             Sum(i) == IF i = 0 THEN 0 ELSE spacings[i] + Sum(i - 1)
             Abs(x) == IF x < 0 THEN 0 - x ELSE x
         IN  \A i \in 1 .. count :
                Abs(count * spacings[i] - Sum(count)) <= count * spacing_tolerance

\* _compare_layout
compare_layout(design) ==
    LET with_bounds == SelectSeq(design.design_tokens,
                                 LAMBDA token : token.bounds # << >> /\ token.layout)
        figma_elements == [i \in DOMAIN with_bounds |-> with_bounds[i].bounds[1]]
    IN  IF Len(figma_elements) >= 3
           /\ ~calculate_spacing_consistency(figma_elements)
        THEN << Difference("spacing", "info", << >>, << >>, << >>,
                           "Spacing inconsistency detected in design") >>
        ELSE << >>

\* Faulty variant of compare_dimensions: a delta equal to the tolerance counts.
compare_dimensions_inclusive(design, site) ==
    LET figma_tokens == design.design_tokens
    IN  IF figma_tokens = << >> \/ figma_tokens[1].bounds = << >>
           \/ site.viewport = << >>
        THEN << >>
        ELSE LET figma_width == figma_tokens[1].bounds[1].width
                 website_width == site.viewport[1].width
                 width_diff == IF figma_width < website_width
                               THEN website_width - figma_width
                               ELSE figma_width - website_width
             IN  IF width_diff >= dimension_tolerance
                 THEN << Difference("dimension", "warning",
                                    << figma_width, "px" >>,
                                    << website_width, "px" >>,
                                    << width_diff, "px difference" >>,
                                    "Width mismatch: Figma frame vs website viewport") >>
                 ELSE << >>

\* _compare_dimensions
compare_dimensions(design, site) ==
    LET figma_tokens == design.design_tokens
    IN  IF figma_tokens = << >> \/ figma_tokens[1].bounds = << >>
           \/ site.viewport = << >>
        THEN << >>
        ELSE LET figma_width == figma_tokens[1].bounds[1].width
                 website_width == site.viewport[1].width
                 width_diff == IF figma_width < website_width
                               THEN website_width - figma_width
                               ELSE figma_width - website_width
             IN  IF width_diff > dimension_tolerance
                 THEN << Difference("dimension", "warning",
                                    << figma_width, "px" >>,
                                    << website_width, "px" >>,
                                    << width_diff, "px difference" >>,
                                    "Width mismatch: Figma frame vs website viewport") >>
                 ELSE << >>

\* _create_visual_differences, overall in hundredths of a percent
create_visual_differences(overall_score) ==
    IF overall_score < 9000
    THEN << Difference("visual",
                       IF overall_score < 7000 THEN "critical" ELSE "warning",
                       << OneDecimal(overall_score), "% match" >>,
                       << "Visual rendering" >>,
                       << OneDecimal(10000 - overall_score), "% difference" >>,
                       "Visual similarity") >>
    ELSE << >>

CountOf(differences, severity) ==
    Cardinality({i \in DOMAIN differences : differences[i].severity = severity})

\* Faulty variant of visual_score_of: without a score the visual score is 0.
visual_score_of_zero(similarity_scores) ==
    IF similarity_scores # << >> /\ similarity_scores[1].overall # 0
    THEN similarity_scores[1].overall
    ELSE 0

\* _calculate_summary, lines 355-359, in hundredths: a dict without a truthy
\* "overall" gives 100
visual_score_of(similarity_scores) ==
    IF similarity_scores # << >> /\ similarity_scores[1].overall # 0
    THEN similarity_scores[1].overall
    ELSE 10000

\* Faulty variant of match_score_of: the decimals after the first are cut.
match_score_of_cut(visual_score, critical_count, warning_count, info_count) ==
    LET structural_penalty ==
            3000 * critical_count + 1500 * warning_count + 500 * info_count
        structural_component ==
            IF 40000 - structural_penalty > 0 THEN 40000 - structural_penalty
            ELSE 0
        total == 6 * visual_score + structural_component
        clamped == IF total > 100000 THEN 100000
                   ELSE IF total < 0 THEN 0 ELSE total
    IN  clamped \div 100

\* _calculate_summary, lines 365-376: match_score in tenths, from a visual
\* score in hundredths; the sum is kept in thousandths.
match_score_of(visual_score, critical_count, warning_count, info_count) ==
    LET visual_component == 6 * visual_score
        structural_penalty ==
            3000 * critical_count + 1500 * warning_count + 500 * info_count
        structural_component ==
            IF 40000 - structural_penalty > 0 THEN 40000 - structural_penalty
            ELSE 0
        total == visual_component + structural_component
        clamped == IF total > 100000 THEN 100000
                   ELSE IF total < 0 THEN 0 ELSE total
    IN  (clamped + 50) \div 100

\* _calculate_summary
calculate_summary(differences, similarity_scores) ==
    [total_differences |-> Len(differences),
     critical |-> CountOf(differences, "critical"),
     warnings |-> CountOf(differences, "warning"),
     info |-> CountOf(differences, "info"),
     match_score |-> match_score_of(visual_score_of(similarity_scores),
                                    CountOf(differences, "critical"),
                                    CountOf(differences, "warning"),
                                    CountOf(differences, "info"))]

\* What the image functions measure on the two screenshots: calculate_ssim
\* gives the score in ten-thousandths, calculate_mse the error, compare_hashes
\* the distance of the hashes; << >> where the function raises.
Measures(ssim, mse, hash_distance) ==
    [raised |-> FALSE, ssim |-> ssim, mse |-> mse, hash_distance |-> hash_distance]

\* image_utils.calculate_similarity, lines 190-195: the three percentages,
\* in quarters of a hundredth of a percent. A score that raised counts as
\* ssim 0.0, mse inf, distance 999.
ssim_percentage(images) == IF images.ssim = << >> THEN 0 ELSE 4 * images.ssim[1]

mse_percentage(images) ==
    IF images.mse = << >> \/ images.mse[1] > 10000 THEN 0
    ELSE 4 * (10000 - images.mse[1])

hash_percentage(images) ==
    LET hash_distance == IF images.hash_distance = << >> THEN 999
                         ELSE images.hash_distance[1]
    IN  IF 625 * hash_distance > 40000 THEN 0 ELSE 40000 - 625 * hash_distance

\* Faulty variant of calculate_similarity: the overall score is the SSIM.
calculate_similarity_ssim(images) ==
    [overall |-> (2 * ssim_percentage(images) + 4) \div 8]

\* image_utils.calculate_similarity, line 201: "overall", the mean of the
\* three rounded to hundredths of a percent
calculate_similarity(images) ==
    [overall |-> (2 * (ssim_percentage(images) + mse_percentage(images)
                          + hash_percentage(images)) + 12) \div 24]

\* The image outcomes compare is run with: create_visual_diff raises, every
\* score raises, identical images, and images in between.
ImageOutcomes ==
    { [raised |-> TRUE, ssim |-> << >>, mse |-> << >>, hash_distance |-> << >>],
      Measures(<< >>, << >>, << >>),
      Measures(<< 10000 >>, << 0 >>, << 0 >>),
      Measures(<< 9976 >>, << 0 >>, << 0 >>),
      Measures(<< 9973 >>, << 0 >>, << 0 >>),
      Measures(<< 9800 >>, << 500 >>, << 6 >>),
      Measures(<< 9800 >>, << 500 >>, << 39 >>),
      Measures(<< 970 >>, << 0 >>, << 0 >>) }

\* compare, lines 83-115: the similarity scores, {} as << >>
SimilarityScores(design, site, images) ==
    IF design.image_exports # << >> /\ site.screenshot # << >> /\ ~images.raised
    THEN << calculate_similarity(images) >>
    ELSE << >>

\* compare, lines 109-112
VisualDifferences(similarity_scores) ==
    IF similarity_scores # << >> /\ similarity_scores[1].overall < 9000
    THEN create_visual_differences(similarity_scores[1].overall)
    ELSE << >>

\* UIComparator.compare in a process with this hash seed: the DiffReport
compare(design, site, images, seed) ==
    LET similarity_scores == SimilarityScores(design, site, images)
        differences ==
            compare_colors_pass(design, site, seed)
                \o compare_typography(design, site, seed)
                \o compare_layout(design)
                \o compare_dimensions(design, site)
                \o VisualDifferences(similarity_scores)
    IN  [status |-> "completed",
         summary |-> calculate_summary(differences, similarity_scores),
         differences |-> differences,
         similarity_scores |-> similarity_scores,
         visual_diff_url |-> similarity_scores # << >>]

\* The design tokens and site captures compare is called with.
MaxTokens == 3

Purple == << "#", "7", "c", "3", "a", "e", "d" >>
PurpleUpper == << "#", "7", "C", "3", "A", "E", "D" >>
Green == << "#", "1", "0", "b", "9", "8", "1" >>
NearPurple == << "#", "7", "b", "3", "a", "e", "a" >>
ClosePurple == << "#", "7", "c", "3", "a", "e", "b" >>

Fill(type, color) == [type |-> type, color |-> color]

Bounds(x, width, height) == [x |-> x, y |-> 0, width |-> width, height |-> height]

Token(name, bounds, fills, typography) ==
    [name |-> name, bounds |-> bounds, fills |-> fills,
     typography |-> typography, layout |-> TRUE]

Tokens ==
    { Token("Landing", << Bounds(0, 1920, 1080) >>, << >>, << >>),
      Token("Hero", << Bounds(0, 100, 40) >>, << Fill("SOLID", Purple) >>, << >>),
      Token("Title", << Bounds(120, 100, 40) >>,
            << Fill("SOLID", PurpleUpper), Fill("IMAGE", << >>) >>,
            << [font_family |-> "Inter"] >>),
      Token("Note", << >>, << Fill("SOLID", Green) >>,
            << [font_family |-> "Roboto"] >>) }

TokenLists == UNION {[1 .. n -> Tokens] : n \in 0 .. MaxTokens}

Designs ==
    {[design_tokens |-> tokens, image_exports |-> image_exports] :
        tokens \in TokenLists,
        image_exports \in {<< >>, << "figma/1_2.png" >>}}

AnalysisData(colors, fonts, viewport, screenshot) ==
    [colors |-> colors, fonts |-> fonts, viewport |-> << viewport >>,
     screenshot |-> screenshot]

Sites ==
    {AnalysisData(colors, fonts, viewport, screenshot) :
        colors \in {<< >>, << NearPurple >>, << ClosePurple, Green >>,
                    << Green >>, << NearPurple, Green >>},
        fonts \in {<< >>, << [family |-> "Inter"] >>},
        viewport \in {[width |-> 1920, height |-> 1080]},
        screenshot \in {<< >>, << "website/website_screenshot.png" >>}}
      \cup {AnalysisData(<< >>, << >>, viewport, << >>) :
               viewport \in {[width |-> 1918, height |-> 1080],
                             [width |-> 1923, height |-> 1080]}}
      \cup {AnalysisData(colors, << >>, [width |-> 1366, height |-> 768],
                         << "website/website_screenshot.png" >>) :
               colors \in {<< >>, << Green >>}}

\* One compare call: its arguments, the outcome of the image functions and
\* the report returned.
Comparison(design, site, images, result) ==
    [inputs |-> << [design |-> design, site |-> site, images |-> images] >>,
     report |-> << result >>]

NoComparison == [inputs |-> << >>, report |-> << >>]

\* --------------------------------------------------- services/web_analyzer.py
\* The timers of _wait_for_dom_stable, in milliseconds.
FirstCheckAfter == 200
CheckEvery == 100
StableFor == 300
StabilityTimeout == 5000

\* How the stability wait ended, after how long, and how long the DOM had
\* been quiet then.
DomWait(outcome, waited, quiet) ==
    [outcome |-> outcome, waited |-> waited, quiet |-> quiet]

\* One capture_screenshot call: its position and arguments, the clock of the
\* page with lastMutationTime and the time of the next checkStable, the waits
\* that have ended, the waits that had ended when page.screenshot ran, and
\* the exception raised.
Capture(position, wait_for_selector, full_page, scroll_to_load, wait_for_animations) ==
    [pc |-> position, wait_for_selector |-> wait_for_selector,
     full_page |-> full_page, scroll_to_load |-> scroll_to_load,
     wait_for_animations |-> wait_for_animations,
     clock |-> 0, lastMutationTime |-> 0, next_check |-> 0,
     dom_wait |-> DomWait("not started", 0, 0), steps |-> << >>,
     screenshot |-> << >>, error |-> NoneVal]

NoCapture == Capture("idle", FALSE, FALSE, FALSE, FALSE)

Init ==
    /\ pc = [j \in JobIds |-> "none"]
    /\ kind = [j \in JobIds |-> NoneVal]
    /\ options = [j \in JobIds |-> [generate_html_report |-> TRUE]]
    /\ viewports = [j \in JobIds |-> << >>]
    /\ caught = [j \in JobIds |-> NoneVal]
    /\ figma_data = [j \in JobIds |-> NoneVal]
    /\ website_data = [j \in JobIds |-> NoneVal]
    /\ report = EmptyDict
    /\ viewport_results = [j \in JobIds |-> << >>]
    /\ vp_index = [j \in JobIds |-> 0]
    /\ extract_calls = [j \in JobIds |-> 0]
    /\ in_memory_progress = EmptyDict
    /\ in_memory_results = EmptyDict
    /\ jobs_table = EmptyDict
    /\ db_up \in BOOLEAN
    /\ comparisons = EmptyDict
    /\ viewport_rows = << >>
    /\ files = EmptyDict
    /\ response = NoResponse
    /\ figma_cache = EmptyDict
    /\ now = 0
    /\ last_fetch = NoFetch
    /\ request_log = NoRequests
    /\ extraction = NoExtraction
    /\ hash_seed = 0
    /\ comparison = NoComparison
    /\ earlier = NoComparison
    /\ capture = NoCapture
    /\ written = EmptyDict
    /\ deleted = {}
    /\ active_connections = EmptyDict
    /\ handlers = [c \in Sockets |-> NoHandler]
    /\ job_progress = EmptyDict
    /\ deliveries = {}
    /\ cache_calls = [j \in CacheJobs |-> NoCall]

\* uuid.uuid4(): an id no job has used.
FreshJobId(job_id) ==
    /\ pc[job_id] = "none"
    /\ \A k \in JobIds : k < job_id => pc[k] # "none"

\* -------------------------------------------- POST /compare (and /responsive)
create_comparison(job_id) ==
    /\ LoopFree
    /\ FreshJobId(job_id)
    /\ \E html \in BOOLEAN :
         options' = [options EXCEPT ![job_id] = [generate_html_report |-> html]]
    /\ set_progress(job_id, ProgressUpdate(job_id, "queued", 0,
                                           "Job queued for processing", NoneVal))
    /\ kind' = [kind EXCEPT ![job_id] = "single"]
    /\ Goto(job_id, "queued")
    /\ response' = Resp("create_comparison", job_id, 200,
                        ComparisonResponse(job_id, "queued"))
    /\ UNCHANGED << viewports, caught, figma_data, website_data, report,
                    viewport_results, vp_index, extract_calls,
                    in_memory_results, historyVars, files, envVars >>

create_responsive_comparison(job_id) ==
    /\ LoopFree
    /\ FreshJobId(job_id)
    /\ \E n \in 0 .. MaxViewports :
         /\ viewports' = [viewports EXCEPT ![job_id] = Viewports(n)]
         /\ set_progress(job_id, ProgressUpdate(job_id, "queued", 0,
                "Queued for processing (" \o Str(n) \o " viewports)", NoneVal))
    /\ kind' = [kind EXCEPT ![job_id] = "responsive"]
    /\ Goto(job_id, "queued")
    /\ response' = Resp("create_responsive_comparison", job_id, 200,
                        ComparisonResponse(job_id, "queued"))
    /\ UNCHANGED << options, caught, figma_data, website_data, report,
                    viewport_results, vp_index, extract_calls,
                    in_memory_results, historyVars, files, envVars >>

\* ------------------------------------ process_comparison_job (one viewport)
requestVars == << kind, options, viewports >>
localVars == << figma_data, website_data, report, viewport_results, vp_index,
                extract_calls >>

SingleAt(job_id, label) ==
    /\ kind[job_id] = "single"
    /\ pc[job_id] = label
    /\ LoopFreeFor(job_id)
    /\ response' = NoResponse

\* A step that only writes a progress update and moves on.
ProgressStep(job_id, progress, next) ==
    /\ set_progress(job_id, progress)
    /\ Goto(job_id, next)
    /\ UNCHANGED << requestVars, caught, localVars, in_memory_results,
                    historyVars, files, envVars >>

\* comparison_tasks.py:39-45
s_start(job_id) ==
    /\ SingleAt(job_id, "queued")
    /\ ProgressStep(job_id,
           ProgressUpdate(job_id, "processing", 10, "Starting comparison...",
                          "initialization"),
           "s_setup")

\* comparison_tasks.py:47-58  output_dir.mkdir, history_db.save_comparison
s_setup(job_id) ==
    /\ SingleAt(job_id, "s_setup")
    /\ \/ /\ comparisons' = save_comparison(job_id, "desktop")
          /\ Goto(job_id, "s_p20")
          /\ UNCHANGED caught
       \/ /\ \E m \in (DbErrors \cup DiskErrors) : Raise(job_id, m)
          /\ UNCHANGED comparisons
    /\ UNCHANGED << requestVars, localVars, storeVars, viewport_rows, files,
                    envVars >>

\* comparison_tasks.py:60-63
s_progress_extraction(job_id) ==
    /\ SingleAt(job_id, "s_p20")
    /\ ProgressStep(job_id,
           ProgressUpdate(job_id, "processing", 20,
                          "Extracting Figma design data...", "figma_extraction"),
           "s_extract")

\* comparison_tasks.py:65-79  extract_from_url returns, or it raises, or the
\* input type is not 'url' and the task raises HTTPException itself.
s_extract(job_id) ==
    /\ SingleAt(job_id, "s_extract")
    /\ extract_calls' = [extract_calls EXCEPT ![job_id] = @ + 1]
    /\ \/ /\ figma_data' = [figma_data EXCEPT ![job_id] = "figma_data"]
          /\ Goto(job_id, "s_p50")
          /\ UNCHANGED caught
       \/ /\ \E m \in ExtractErrors : Raise(job_id, m)
          /\ UNCHANGED figma_data
    /\ UNCHANGED << requestVars, website_data, report, viewport_results,
                    vp_index, storeVars, historyVars, files, envVars >>

\* comparison_tasks.py:81-84
s_progress_website(job_id) ==
    /\ SingleAt(job_id, "s_p50")
    /\ ProgressStep(job_id,
           ProgressUpdate(job_id, "processing", 50, "Analyzing website...",
                          "website_analysis"),
           "s_render")

\* comparison_tasks.py:86-92  await analyze_website_async(...)
s_render(job_id) ==
    /\ SingleAt(job_id, "s_render")
    /\ \/ /\ website_data' = [website_data EXCEPT ![job_id] = "website_data"]
          /\ Goto(job_id, "s_p75")
          /\ UNCHANGED caught
       \/ /\ \E m \in RenderErrors : Raise(job_id, m)
          /\ UNCHANGED website_data
    /\ UNCHANGED << requestVars, figma_data, report, viewport_results,
                    vp_index, extract_calls, storeVars, historyVars, files,
                    envVars >>

\* comparison_tasks.py:94-97
s_progress_comparison(job_id) ==
    /\ SingleAt(job_id, "s_p75")
    /\ ProgressStep(job_id,
           ProgressUpdate(job_id, "processing", 75, "Comparing designs...",
                          "comparison"),
           "s_compare")

\* comparison_tasks.py:99-105  comparator.compare(figma_data, website_data, ...)
s_compare(job_id) ==
    /\ SingleAt(job_id, "s_compare")
    /\ \/ /\ \E out \in CompareOutcomes :
               report' = DictSet(report, job_id,
                                 DiffReport(job_id, "completed", out.match_score,
                                            out.differences, NoneVal))
          /\ Goto(job_id, "s_p90")
          /\ UNCHANGED caught
       \/ /\ \E m \in DiskErrors : Raise(job_id, m)
          /\ UNCHANGED report
    /\ UNCHANGED << requestVars, figma_data, website_data, viewport_results,
                    vp_index, extract_calls, storeVars, historyVars, files,
                    envVars >>

\* comparison_tasks.py:107-110
s_progress_report(job_id) ==
    /\ SingleAt(job_id, "s_p90")
    /\ ProgressStep(job_id,
           ProgressUpdate(job_id, "processing", 90, "Generating reports...",
                          "report_generation"),
           "s_json")

\* A file of OUTPUT_DIR/<job_id>: json.load succeeds on it iff valid.
File(valid, data) == [valid |-> valid, data |-> data]

\* comparison_tasks.py:112-115  generate_json_report writes report.json; a
\* failure leaves no file (open failed) or a truncated one (dump failed).
s_json(job_id) ==
    /\ SingleAt(job_id, "s_json")
    /\ \/ /\ files' = DictSet(files, << job_id, "report.json" >>,
                              File(TRUE, report[job_id]))
          /\ Goto(job_id, "s_html")
          /\ UNCHANGED caught
       \/ /\ \E m \in DiskErrors : Raise(job_id, m)
          /\ \/ UNCHANGED files
             \/ files' = DictSet(files, << job_id, "report.json" >>,
                                 File(FALSE, report[job_id]))
    /\ UNCHANGED << requestVars, localVars, storeVars, historyVars, envVars >>

\* comparison_tasks.py:117-122  with generate_html_report set the task calls
\* generate_html_report(report, path, comparison_number=...), a keyword
\* report_generator.py:308 does not accept: TypeError, unless
\* history_db.get_comparison raised first.
s_html(job_id) ==
    /\ SingleAt(job_id, "s_html")
    /\ IF options[job_id].generate_html_report
       THEN \E m \in DbErrors \cup {HtmlKwargError} : Raise(job_id, m)
       ELSE Goto(job_id, "s_hist") /\ UNCHANGED caught
    /\ UNCHANGED << requestVars, localVars, storeVars, historyVars, files,
                    envVars >>

\* comparison_tasks.py:124-136  history_db.update_comparison_result(completed)
\* and, when the request came with a user_id, user_db.increment_comparison_count.
s_history(job_id) ==
    /\ SingleAt(job_id, "s_hist")
    /\ \/ /\ comparisons' = update_comparison_result(job_id,
                 Frac(report[job_id].match_score, 1),
                 report[job_id].differences, "completed")
          /\ \/ Goto(job_id, "s_p100") /\ UNCHANGED caught
             \/ \E user_id \in {"u1"}, m \in DbErrors : Raise(job_id, m)
       \/ /\ \E m \in DbErrors : Raise(job_id, m)
          /\ UNCHANGED comparisons
    /\ UNCHANGED << requestVars, localVars, storeVars, viewport_rows, files,
                    envVars >>

\* comparison_tasks.py:138-141
s_complete(job_id) ==
    /\ SingleAt(job_id, "s_p100")
    /\ ProgressStep(job_id,
           ProgressUpdate(job_id, "completed", 100, "Comparison complete!",
                          NoneVal),
           "s_result")

\* A step that only stores a result and moves on.
ResultStep(job_id, data, next) ==
    /\ set_result(job_id, data)
    /\ Goto(job_id, next)
    /\ UNCHANGED << requestVars, caught, localVars, in_memory_progress,
                    historyVars, files, envVars >>

\* comparison_tasks.py:143-145
s_result(job_id) ==
    /\ SingleAt(job_id, "s_result")
    /\ ResultStep(job_id, report[job_id], "done")

\* Faulty variant of s_except: a fixed message instead of the exception's.
s_except_generic(job_id) ==
    /\ SingleAt(job_id, "s_except")
    /\ ProgressStep(job_id,
           ProgressUpdate(job_id, "failed", 0, "Error: comparison failed",
                          NoneVal),
           "sx_hist")

\* comparison_tasks.py:147-155  except Exception as e: ... "Error: {str(e)}"
s_except(job_id) ==
    /\ SingleAt(job_id, "s_except")
    /\ ProgressStep(job_id,
           ProgressUpdate(job_id, "failed", 0, "Error: " \o caught[job_id],
                          NoneVal),
           "sx_hist")

\* comparison_tasks.py:157-165  history_db.update_comparison_result(failed);
\* if it raises, the exception leaves the task.
s_except_history(job_id) ==
    /\ SingleAt(job_id, "sx_hist")
    /\ \/ /\ comparisons' = update_comparison_result(job_id, Frac(0, 1), 0,
                                                     "failed")
          /\ Goto(job_id, "sx_result")
       \/ /\ Goto(job_id, "crashed")
          /\ UNCHANGED comparisons
    /\ UNCHANGED << requestVars, caught, localVars, storeVars, viewport_rows,
                    files, envVars >>

\* comparison_tasks.py:167-172  error_report
s_except_result(job_id) ==
    /\ SingleAt(job_id, "sx_result")
    /\ ResultStep(job_id,
                  DiffReport(job_id, "failed", 0, 0, caught[job_id]),
                  "done")

\* ------------------------------- process_responsive_comparison (fan-out)
ResponsiveAt(job_id, label) ==
    /\ kind[job_id] = "responsive"
    /\ pc[job_id] = label
    /\ LoopFreeFor(job_id)
    /\ response' = NoResponse

RECURSIVE SumOf(_, _)
\* sum(v.<field> for v in results)
SumOf(results, field) ==
    IF results = << >> THEN 0
    ELSE Head(results)[field] + SumOf(Tail(results), field)

\* Faulty variant of overall_score: the last viewport's score, not the mean.
overall_score_last(results) ==
    IF Len(results) > 0
    THEN Frac(results[Len(results)].match_score, 1)
    ELSE Frac(0, 1)

\* comparison_tasks.py:281
overall_score(results) ==
    IF Len(results) > 0
    THEN Frac(SumOf(results, "match_score"), Len(results))
    ELSE Frac(0, 1)

\* comparison_tasks.py:282
total_diffs(results) == SumOf(results, "total_differences")

\* Faulty variant of progress_base: the offset of 20 is left out.
progress_base_no_offset(i, total_viewports) == (i * 70) \div total_viewports

\* comparison_tasks.py:231
progress_base(i, total_viewports) == 20 + ((i * 70) \div total_viewports)

\* comparison_tasks.py:256-269
ViewportResult(viewport, rep) ==
    [viewport_name |-> viewport.name, match_score |-> rep.match_score,
     total_differences |-> rep.differences, differences |-> rep.differences]

\* comparison_tasks.py:289-299
ResponsiveReport(job_id) ==
    [job_id |-> job_id, status |-> "completed",
     viewport_results |-> viewport_results[job_id],
     overall_match_score |-> overall_score(viewport_results[job_id]),
     total_differences |-> total_diffs(viewport_results[job_id])]

\* comparison_tasks.py:188-194
r_start(job_id) ==
    /\ ResponsiveAt(job_id, "queued")
    /\ ProgressStep(job_id,
           ProgressUpdate(job_id, "processing", 5,
                          "Starting responsive comparison...", "initialization"),
           "r_setup")

\* comparison_tasks.py:196-207
r_setup(job_id) ==
    /\ ResponsiveAt(job_id, "r_setup")
    /\ \/ /\ comparisons' = save_comparison(job_id, "responsive")
          /\ Goto(job_id, "r_p10")
          /\ UNCHANGED caught
       \/ /\ \E m \in (DbErrors \cup DiskErrors) : Raise(job_id, m)
          /\ UNCHANGED comparisons
    /\ UNCHANGED << requestVars, localVars, storeVars, viewport_rows, files,
                    envVars >>

\* comparison_tasks.py:209-212  (no current_step is passed)
r_progress_extraction(job_id) ==
    /\ ResponsiveAt(job_id, "r_p10")
    /\ ProgressStep(job_id,
           ProgressUpdate(job_id, "processing", 10,
                          "Extracting Figma design data...", NoneVal),
           "r_extract")

\* comparison_tasks.py:214-224
r_extract(job_id) ==
    /\ ResponsiveAt(job_id, "r_extract")
    /\ extract_calls' = [extract_calls EXCEPT ![job_id] = @ + 1]
    /\ \/ /\ figma_data' = [figma_data EXCEPT ![job_id] = "figma_data"]
          /\ Goto(job_id, "r_loop")
          /\ UNCHANGED caught
       \/ /\ \E m \in ExtractErrors : Raise(job_id, m)
          /\ UNCHANGED figma_data
    /\ UNCHANGED << requestVars, website_data, report, viewport_results,
                    vp_index, storeVars, historyVars, files, envVars >>

\* comparison_tasks.py:226-236  loop head: the next viewport's update
r_progress_viewport(job_id) ==
    /\ ResponsiveAt(job_id, "r_loop")
    /\ vp_index[job_id] < Len(viewports[job_id])
    /\ LET viewport == viewports[job_id][vp_index[job_id] + 1]
       IN  ProgressStep(job_id,
               ProgressUpdate(job_id, "processing",
                   progress_base(vp_index[job_id], Len(viewports[job_id])),
                   "Analyzing " \o viewport.name \o " (" \o viewport.size \o ")...",
                   "viewport_" \o viewport.name),
               "r_render")

\* comparison_tasks.py:238-246  viewport_dir.mkdir, await analyze_website_async
r_render(job_id) ==
    /\ ResponsiveAt(job_id, "r_render")
    /\ \/ /\ website_data' = [website_data EXCEPT ![job_id] =
                 "website_data@" \o viewports[job_id][vp_index[job_id] + 1].name]
          /\ Goto(job_id, "r_compare")
          /\ UNCHANGED caught
       \/ /\ \E m \in RenderErrors : Raise(job_id, m)
          /\ UNCHANGED website_data
    /\ UNCHANGED << requestVars, figma_data, report, viewport_results,
                    vp_index, extract_calls, storeVars, historyVars, files,
                    envVars >>

\* comparison_tasks.py:248-270  compare, viewport_results.append
r_compare(job_id) ==
    /\ ResponsiveAt(job_id, "r_compare")
    /\ \/ /\ \E out \in ViewportOutcomes(
                            viewports[job_id][vp_index[job_id] + 1].name) :
               LET rep == DiffReport(job_id, "completed", out.match_score,
                                     out.differences, NoneVal)
               IN  /\ report' = DictSet(report, job_id, rep)
                   /\ viewport_results' = [viewport_results EXCEPT ![job_id] =
                        Append(@, ViewportResult(
                            viewports[job_id][vp_index[job_id] + 1], rep))]
          /\ Goto(job_id, "r_savevp")
          /\ UNCHANGED caught
       \/ /\ \E m \in DiskErrors : Raise(job_id, m)
          /\ UNCHANGED << report, viewport_results >>
    /\ UNCHANGED << requestVars, figma_data, website_data, vp_index,
                    extract_calls, storeVars, historyVars, files, envVars >>

\* comparison_tasks.py:272-279  history_db.save_viewport_result, next i
r_save_viewport(job_id) ==
    /\ ResponsiveAt(job_id, "r_savevp")
    /\ \/ /\ viewport_rows' = save_viewport_result(job_id,
                 viewports[job_id][vp_index[job_id] + 1].name,
                 report[job_id].match_score, report[job_id].differences)
          /\ vp_index' = [vp_index EXCEPT ![job_id] = @ + 1]
          /\ Goto(job_id, "r_loop")
          /\ UNCHANGED caught
       \/ /\ \E m \in DbErrors : Raise(job_id, m)
          /\ UNCHANGED << viewport_rows, vp_index >>
    /\ UNCHANGED << requestVars, figma_data, website_data, report,
                    viewport_results, extract_calls, storeVars, comparisons,
                    files, envVars >>

\* comparison_tasks.py:281-287  after the loop
r_progress_pdf(job_id) ==
    /\ ResponsiveAt(job_id, "r_loop")
    /\ vp_index[job_id] >= Len(viewports[job_id])
    /\ ProgressStep(job_id,
           ProgressUpdate(job_id, "processing", 95, "Generating PDF report...",
                          NoneVal),
           "r_hist")

\* comparison_tasks.py:289-309
r_history(job_id) ==
    /\ ResponsiveAt(job_id, "r_hist")
    /\ \/ /\ comparisons' = update_comparison_result(job_id,
                 overall_score(viewport_results[job_id]),
                 total_diffs(viewport_results[job_id]), "completed")
          /\ Goto(job_id, "r_p100")
          /\ UNCHANGED caught
       \/ /\ \E m \in DbErrors : Raise(job_id, m)
          /\ UNCHANGED comparisons
    /\ UNCHANGED << requestVars, localVars, storeVars, viewport_rows, files,
                    envVars >>

\* comparison_tasks.py:311-314
r_complete(job_id) ==
    /\ ResponsiveAt(job_id, "r_p100")
    /\ ProgressStep(job_id,
           ProgressUpdate(job_id, "completed", 100,
               "Responsive comparison complete! Tested "
                   \o Str(Len(viewports[job_id])) \o " viewports.",
               NoneVal),
           "r_write")

\* comparison_tasks.py:316-320  open(responsive_report.json, 'w'), json.dump
r_write(job_id) ==
    /\ ResponsiveAt(job_id, "r_write")
    /\ \/ /\ files' = DictSet(files, << job_id, "responsive_report.json" >>,
                              File(TRUE, ResponsiveReport(job_id)))
          /\ Goto(job_id, "done")
          /\ UNCHANGED caught
       \/ /\ \E m \in DiskErrors : Raise(job_id, m)
          /\ \/ UNCHANGED files
             \/ files' = DictSet(files, << job_id, "responsive_report.json" >>,
                                 File(FALSE, ResponsiveReport(job_id)))
    /\ UNCHANGED << requestVars, localVars, storeVars, historyVars, envVars >>

\* comparison_tasks.py:322-330  except Exception as e: ... message=str(e)
r_except(job_id) ==
    /\ ResponsiveAt(job_id, "r_except")
    /\ ProgressStep(job_id,
           ProgressUpdate(job_id, "failed", 0, caught[job_id], NoneVal),
           "rx_hist")

\* comparison_tasks.py:332-340
r_except_history(job_id) ==
    /\ ResponsiveAt(job_id, "rx_hist")
    /\ \/ /\ comparisons' = update_comparison_result(job_id, Frac(0, 1), 0,
                                                     "failed")
          /\ Goto(job_id, "done")
       \/ /\ Goto(job_id, "crashed")
          /\ UNCHANGED comparisons
    /\ UNCHANGED << requestVars, caught, localVars, storeVars, viewport_rows,
                    files, envVars >>

\* ------------------------------------------------- polling endpoints
\* A client asks for the report through the route of the kind of job it
\* created (or with an id no job has).
\* Faulty variant of StillRunning: only a queued job counts as running.
StillRunning_queued(pdata) ==
    /\ pdata # << >>
    /\ pdata[1]["status"] = "queued"

StillRunning(pdata) ==
    /\ pdata # << >>
    /\ pdata[1]["status"] \in {"processing", "queued"}

\* GET /report/{job_id}  (comparison_endpoints.py:72-98)
get_report(job_id) ==
    /\ LoopFree
    /\ kind[job_id] # "responsive"
    /\ LET result == ResultData(job_id)
           pdata == ProgressData(job_id)
           path == << job_id, "report.json" >>
       IN  IF result # << >>
           THEN /\ response' = Resp("get_report", job_id, 200, result[1])
                /\ in_memory_results' = ResultCacheAfterGet(job_id)
                /\ UNCHANGED << in_memory_progress, jobs_table >>
           ELSE IF pdata # << >> /\ ~ValidProgressData(pdata[1])
           THEN /\ response' = Resp("get_report", job_id, 500,
                                    Detail("Internal Server Error"))
                /\ in_memory_progress' = ProgressCacheAfterGet(job_id)
                /\ UNCHANGED << in_memory_results, jobs_table >>
           ELSE IF StillRunning(pdata)
           THEN /\ response' = Resp("get_report", job_id, 202,
                      Detail("Job is still processing: " \o pdata[1]["message"]))
                /\ UNCHANGED storeVars
           ELSE IF path \in DOMAIN files /\ files[path].valid
           THEN /\ set_result(job_id, files[path].data)
                /\ response' = Resp("get_report", job_id, 200, files[path].data)
                /\ UNCHANGED in_memory_progress
           ELSE /\ response' = Resp("get_report", job_id, 404,
                                    Detail("Job not found"))
                /\ UNCHANGED storeVars
    /\ UNCHANGED << taskVars, historyVars, files, envVars >>

\* GET /progress/{job_id}  (comparison_endpoints.py:101-108)
get_progress(job_id) ==
    /\ LoopFree
    /\ LET pdata == ProgressData(job_id)
       IN  /\ in_memory_progress' = ProgressCacheAfterGet(job_id)
           /\ response' =
                IF pdata = << >>
                THEN Resp("get_progress", job_id, 404, Detail("Job not found"))
                ELSE IF ~ValidProgressData(pdata[1])
                THEN Resp("get_progress", job_id, 500,
                          Detail("Internal Server Error"))
                ELSE Resp("get_progress", job_id, 200, ParseProgress(pdata[1]))
    /\ UNCHANGED << taskVars, in_memory_results, jobs_table, historyVars, files,
                    envVars >>

\* GET /report/{job_id}/responsive  (comparison_endpoints.py:185-204)
get_responsive_report(job_id) ==
    /\ LoopFree
    /\ kind[job_id] # "single"
    /\ LET pdata == ProgressData(job_id)
           path == << job_id, "responsive_report.json" >>
       IN  /\ in_memory_progress' = ProgressCacheAfterGet(job_id)
           /\ response' =
                IF pdata # << >> /\ ~ValidProgressData(pdata[1])
                THEN Resp("get_responsive_report", job_id, 500,
                          Detail("Internal Server Error"))
                ELSE IF StillRunning(pdata)
                THEN Resp("get_responsive_report", job_id, 202,
                       Detail("Job is still processing: " \o pdata[1]["message"]))
                ELSE IF path \in DOMAIN files /\ files[path].valid
                THEN Resp("get_responsive_report", job_id, 200, files[path].data)
                ELSE Resp("get_responsive_report", job_id, 404,
                          Detail("Responsive job not found"))
    /\ UNCHANGED << taskVars, in_memory_results, jobs_table, historyVars, files,
                    envVars >>

\* ---------------------------------------------------------- specification
Next ==
    \/ \E j \in JobIds : create_comparison(j)
    \/ \E j \in JobIds : create_responsive_comparison(j)
    \/ \E j \in JobIds : s_start(j)
    \/ \E j \in JobIds : s_setup(j)
    \/ \E j \in JobIds : s_progress_extraction(j)
    \/ \E j \in JobIds : s_extract(j)
    \/ \E j \in JobIds : s_progress_website(j)
    \/ \E j \in JobIds : s_render(j)
    \/ \E j \in JobIds : s_progress_comparison(j)
    \/ \E j \in JobIds : s_compare(j)
    \/ \E j \in JobIds : s_progress_report(j)
    \/ \E j \in JobIds : s_json(j)
    \/ \E j \in JobIds : s_html(j)
    \/ \E j \in JobIds : s_history(j)
    \/ \E j \in JobIds : s_complete(j)
    \/ \E j \in JobIds : s_result(j)
    \/ \E j \in JobIds : s_except(j)
    \/ \E j \in JobIds : s_except_history(j)
    \/ \E j \in JobIds : s_except_result(j)
    \/ \E j \in JobIds : r_start(j)
    \/ \E j \in JobIds : r_setup(j)
    \/ \E j \in JobIds : r_progress_extraction(j)
    \/ \E j \in JobIds : r_extract(j)
    \/ \E j \in JobIds : r_progress_viewport(j)
    \/ \E j \in JobIds : r_render(j)
    \/ \E j \in JobIds : r_compare(j)
    \/ \E j \in JobIds : r_save_viewport(j)
    \/ \E j \in JobIds : r_progress_pdf(j)
    \/ \E j \in JobIds : r_history(j)
    \/ \E j \in JobIds : r_complete(j)
    \/ \E j \in JobIds : r_write(j)
    \/ \E j \in JobIds : r_except(j)
    \/ \E j \in JobIds : r_except_history(j)
    \/ \E j \in JobIds : get_report(j)
    \/ \E j \in JobIds : get_progress(j)
    \/ \E j \in JobIds : get_responsive_report(j)

\* The jobs database answers throughout: an outage only leaves rows of
\* jobs_table unwritten, and no step below reads a row while the in-memory
\* entry of the job exists.
JobInit == Init /\ db_up

Spec == JobInit /\ [][Next]_vars

\* ========================================================= job lifecycle
Terminal == {"completed", "failed"}

Known(job_id) == job_id \in DOMAIN in_memory_progress

Status(job_id) == in_memory_progress[job_id]["status"]

Failed(job_id) == Known(job_id) /\ Status(job_id) = "failed"

Completed(job_id) == Known(job_id) /\ Status(job_id) = "completed"

\* C1: a job first appears as queued with percent 0, before its task has
\* run, and its status afterwards only moves queued -> processing,
\* processing -> completed or processing -> failed.
C1_StatusTransitions ==
    [][\A j \in JobIds :
          /\ (~Known(j) /\ Known(j)') =>
                /\ Status(j)' = "queued"
                /\ in_memory_progress'[j]["progress"] = 0
                /\ pc[j] = "none" /\ pc'[j] = "queued"
          /\ (Known(j) /\ Known(j)' /\ Status(j)' # Status(j)) =>
                << Status(j), Status(j)' >> \in
                    { << "queued", "processing" >>,
                      << "processing", "completed" >>,
                      << "processing", "failed" >> }]_vars

\* C2: once the orchestrator has written completed or failed, no later step
\* changes the job's status, percent, phase or message.
C2_TerminalIsFinal ==
    [][\A j \in JobIds :
          (Known(j) /\ Status(j) \in Terminal) =>
              (Known(j)' /\ in_memory_progress'[j] = in_memory_progress[j])]_vars

C4_NothingOfFailedRun ==
    \A j \in JobIds :
        (Failed(j) /\ kind[j] = "single") =>
            /\ << j, "report.json" >> \in DOMAIN files =>
                   ~files[<< j, "report.json" >>].valid
            /\ j \in DOMAIN in_memory_results =>
                   /\ in_memory_results[j].status = "failed"
                   /\ in_memory_results[j].differences = 0
                   /\ in_memory_results[j].error # NoneVal
            /\ (response.op = "get_report" /\ response.job_id = j
                    /\ response.code = 200) =>
                   /\ response.body.status = "failed"
                   /\ response.body.differences = 0

\* The report endpoint of the job's kind.
ReportOp(job_id) ==
    IF kind[job_id] = "single" THEN "get_report" ELSE "get_responsive_report"

\* C5: for a job that failed, single or responsive, the progress endpoint
\* answers with status failed and the error message, and the report endpoint
\* answers with a report of status failed carrying the error, not 'not found'.
C5_FailedJobIsReported ==
    \A j \in JobIds :
        (Failed(j) /\ pc[j] = "done" /\ response.job_id = j) =>
            /\ response.op = "get_progress" =>
                   /\ response.code = 200
                   /\ response.body.status = "failed"
                   /\ response.body.message \in
                          {caught[j], "Error: " \o caught[j]}
            /\ response.op = ReportOp(j) =>
                   /\ response.code = 200
                   /\ response.body.status = "failed"
                   /\ response.body.error = caught[j]

\* C6 as stated: the message of the failed state is exactly the message m of
\* the exception, in the progress entry and in the stored result.
C6_MessageIsExactlyM ==
    \A j \in JobIds :
        Failed(j) =>
            /\ in_memory_progress[j]["message"] = caught[j]
            /\ (j \in DOMAIN in_memory_results
                    /\ in_memory_results[j].status = "failed") =>
                   in_memory_results[j].error = caught[j]

\* C6: the failed state keeps the exception's message m verbatim: a
\* responsive job's progress message is m, a single job's progress message
\* is "Error: " followed by m, and the error field of a stored failed result
\* is m.
C6_MessageKeepsM ==
    \A j \in JobIds :
        Failed(j) =>
            /\ kind[j] = "responsive" => in_memory_progress[j]["message"] = caught[j]
            /\ kind[j] = "single" =>
                   in_memory_progress[j]["message"] = "Error: " \o caught[j]
            /\ (j \in DOMAIN in_memory_results
                    /\ in_memory_results[j].status = "failed") =>
                   in_memory_results[j].error = caught[j]

\* A single job failed in a phase and its error result is stored.
C6_Witness ==
    \E j \in JobIds :
        /\ kind[j] = "single" /\ Failed(j)
        /\ caught[j] \in RenderErrors
        /\ j \in DOMAIN in_memory_results
        /\ in_memory_results[j].status = "failed"

\* The phases of section 4.4 under the names the orchestrators give them in
\* current_step, each with its percent band; a viewport_<name> update
\* precedes that viewport's rendering.
ViewportSteps == {"viewport_" \o ViewportPresets[i].name :
                      i \in DOMAIN ViewportPresets}

PhaseBand(current_step) ==
    IF current_step = "initialization" THEN 0 .. 10
    ELSE IF current_step = "figma_extraction" THEN 10 .. 50
    ELSE IF current_step = "website_analysis" \/ current_step \in ViewportSteps
         THEN 50 .. 75
    ELSE IF current_step = "comparison" THEN 75 .. 90
    ELSE IF current_step = "report_generation" THEN 90 .. 100
    ELSE {}

\* C7: every update of a running job names its phase and has a percent in
\* that phase's band, and a phase's update is written only when the outputs
\* of the phases before it exist.
C7_PhaseBands ==
    \A j \in JobIds :
        (Known(j) /\ Status(j) = "processing") =>
            LET update == in_memory_progress[j]
            IN  /\ update["message"] # NoneVal
                /\ update["current_step"] # NoneVal
                /\ update["progress"] \in PhaseBand(update["current_step"])
                /\ update["progress"] > 50 => figma_data[j] # NoneVal
                /\ update["progress"] > 75 => website_data[j] # NoneVal
                /\ update["progress"] > 90 => j \in DOMAIN report

\* the rows ComparisonHistory.get_viewport_results(comparison_id) selects
ViewportRowsOf(comparison_id) ==
    SelectSeq(viewport_rows, LAMBDA row : row.comparison_id = comparison_id)

\* C8: a responsive job in which a viewport's rendering failed ends failed,
\* and no summary of the viewports that had succeeded is persisted or exposed.
C8_NoPartialViewportSummary ==
    \A j \in JobIds :
        (kind[j] = "responsive" /\ caught[j] \in RenderErrors
            /\ pc[j] \in {"rx_hist", "done", "crashed"}) =>
            /\ Failed(j)
            /\ ViewportRowsOf(j) = << >>
            /\ << j, "responsive_report.json" >> \notin DOMAIN files
            /\ (response.job_id = j /\ response.op = "get_responsive_report")
                   => response.code # 200

\* C9: a responsive job that completed over n >= 1 viewports extracted the
\* design once, has exactly one result per requested viewport in request
\* order, and reports as overall score the sum of the per-viewport scores
\* over n and as total differences the sum of the per-viewport counts, in
\* the history row and in responsive_report.json.
C9_Aggregates ==
    \A j \in JobIds :
        (kind[j] = "responsive" /\ Completed(j) /\ Len(viewports[j]) >= 1) =>
            LET n == Len(viewports[j])
                rows == ViewportRowsOf(j)
                path == << j, "responsive_report.json" >>
            IN  /\ extract_calls[j] = 1
                /\ Len(rows) = n
                /\ \A i \in 1 .. n : rows[i].viewport_name = viewports[j][i].name
                /\ comparisons[j].match_score.num * n
                       = comparisons[j].match_score.den * SumOf(rows, "match_score")
                /\ comparisons[j].total_differences
                       = SumOf(rows, "total_differences")
                /\ (path \in DOMAIN files /\ files[path].valid) =>
                       LET rep == files[path].data
                       IN  /\ Len(rep.viewport_results) = n
                           /\ \A i \in 1 .. n :
                                  /\ rep.viewport_results[i].viewport_name
                                         = viewports[j][i].name
                                  /\ rep.viewport_results[i].match_score
                                         = rows[i].match_score
                           /\ rep.overall_match_score.num * n
                                  = rep.overall_match_score.den
                                        * SumOf(rows, "match_score")
                           /\ rep.total_differences
                                  = SumOf(rows, "total_differences")

\* A responsive job completed over two viewports with different scores and
\* wrote its report.
C9_Witness ==
    \E j \in JobIds :
        /\ kind[j] = "responsive" /\ Completed(j)
        /\ Len(viewports[j]) >= 2
        /\ viewport_results[j][1].match_score # viewport_results[j][2].match_score
        /\ << j, "responsive_report.json" >> \in DOMAIN files
        /\ files[<< j, "responsive_report.json" >>].valid

\* ====================================================== design-API cache
CacheInit == Init /\ db_up

CacheNext ==
    \/ \E f \in FileKeys, force_refresh \in BOOLEAN :
           get_file_data(f, force_refresh)
    \/ \E f \in FileKeys, n \in NodeIds, force_refresh \in BOOLEAN :
           get_node_data(f, n, force_refresh)
    \/ \E f \in FileKeys : clear_cache_for_file(f)
    \/ Tick

CacheSpec == CacheInit /\ [][CacheNext]_vars

\* C10: a fetch that finds an entry stored under its key less than
\* CACHE_DURATION_MINUTES ago and does not force a refresh sends no request
\* and returns the entry's data; a fetch that finds an entry of that age or
\* older sends a request and never returns a value taken from the cache.
C10_CacheTTL ==
    (last_fetch.op # NoneVal /\ last_fetch.found # << >>) =>
        LET entry == last_fetch.found[1]
            age == last_fetch.at - entry.timestamp
        IN  /\ (age < CACHE_DURATION_MINUTES /\ ~last_fetch.force_refresh) =>
                   /\ last_fetch.requests = 0
                   /\ last_fetch.source = "cache"
                   /\ last_fetch.outcome = "returned"
                   /\ last_fetch.data = entry.data
            /\ age >= CACHE_DURATION_MINUTES =>
                   /\ last_fetch.requests >= 1
                   /\ last_fetch.source = "network"

\* A fetch was served from an entry 20 minutes old.
C10_Witness ==
    /\ last_fetch.op # NoneVal
    /\ last_fetch.found # << >>
    /\ last_fetch.at - last_fetch.found[1].timestamp = 20
    /\ last_fetch.source = "cache"

\* ===================================================== design extraction
ExtractNext ==
    \/ \E u \in FigmaUrls, n \in NodeIds \cup {NoneVal}, o \in BOOLEAN :
           ex_begin(u, n, o)
    \/ ex_get_file_data
    \/ ex_find_node
    \/ ex_export_image
    \/ \E f \in FileKeys, n \in NodeIds, force_refresh \in BOOLEAN :
           get_node_data(f, n, force_refresh)

ExtractSpec == CacheInit /\ [][ExtractNext]_vars

\* The fetch just made sent requests to the design API.
Sent == request_log.op # NoneVal

LastAnswer == request_log.answers[Len(request_log.answers)]

\* C11: every design-API fetch (file fetch, node, image export) answers a 429
\* by retrying with exponential backoff: at most max_retries retries, i.e.
\* max_retries + 1 requests; retry k (from 0) is preceded by a wait of
\* base_delay * 2^k; a 429 that leaves a retry is followed by a request.
C11_RetryOn429 ==
    Sent =>
        /\ Len(request_log.answers) \in 1 .. max_retries + 1
        /\ Len(request_log.delays) = Len(request_log.answers) - 1
        /\ \A k \in 1 .. Len(request_log.delays) :
               request_log.delays[k] = base_delay * (2 ^ (k - 1))
        /\ \A i \in 1 .. Len(request_log.answers) :
               (request_log.answers[i] = 429 /\ i <= max_retries)
                   => i < Len(request_log.answers)

\* C12: a fetch of any kind whose last permitted request is still answered
\* 429 fails with the rate-limit error that carries the user-facing hint,
\* not with the generic HTTP error.
C12_RateLimitedError ==
    (Sent /\ LastAnswer = 429) =>
        /\ last_fetch.outcome = "raised"
        /\ last_fetch.data = RateLimitMessage

\* C13: failures other than 429 are terminal and not retried: a non-429 HTTP
\* error is the last answer of its fetch, which raises, and when it is the
\* first answer the fetch sent exactly one request and slept no delay; a URL
\* without a file key fails before any request; a node id absent from the
\* file fails after the file fetch with no further fetch.
C13_TerminalFailures ==
    /\ Sent =>
          /\ \A i \in 1 .. Len(request_log.answers) :
                 request_log.answers[i] \notin {200, 429}
                     => /\ i = Len(request_log.answers)
                        /\ last_fetch.outcome = "raised"
          /\ request_log.answers[1] \notin {200, 429}
                 => /\ Len(request_log.answers) = 1
                    /\ request_log.delays = << >>
                    /\ last_fetch.requests = 1
    /\ (extraction.pc # "idle" /\ ~Truthy(extract_file_key(extraction.figma_url)))
          => /\ extraction.pc = "raised"
             /\ extraction.error = InvalidReferenceMessage
             /\ extraction.fetches = << >>
    /\ (/\ extraction.pc \notin {"idle", "get_file_data", "find_node"}
        /\ extraction.document # NoneVal
        /\ Truthy(extraction.node_id)
        /\ extraction.node_id \notin NodesOf(extraction.document))
          => /\ extraction.pc = "raised"
             /\ extraction.error = NodeNotFoundMessage(extraction.node_id)
             /\ Len(extraction.fetches) = 1
             /\ extraction.fetches[1].op = "get_file_data"

\* C13 witness: the file came from the API in one request, the wanted node
\* is not in it and the call has failed.
C13_Witness ==
    /\ extraction.pc = "raised"
    /\ extraction.node_id = "1:2"
    /\ extraction.document = "document v2"
    /\ extraction.fetches = << [op |-> "get_file_data", requests |-> 1] >>

\* ============================================================ comparator
\* compare is called on a design and a site capture; the image functions
\* run only when both screenshots are there
compare_call ==
    /\ comparison = NoComparison
    /\ \E design \in Designs, site \in Sites, images \in ImageOutcomes :
         /\ (design.image_exports = << >> \/ site.screenshot = << >>)
                => images.raised
         /\ comparison' = Comparison(design, site, images,
                                     compare(design, site, images, hash_seed))
    /\ UNCHANGED << hash_seed, earlier, renderVars, taskVars, storeVars,
                    historyVars, files, response, db_up, cacheVars, extractVars,
                    sideVars >>

\* compare is called again with the arguments of the last call
compare_again ==
    /\ comparison # NoComparison
    /\ earlier' = comparison
    /\ LET last == comparison.inputs[1]
       IN  comparison' = Comparison(last.design, last.site, last.images,
                                    compare(last.design, last.site, last.images,
                                            hash_seed))
    /\ UNCHANGED << hash_seed, renderVars, taskVars, storeVars, historyVars,
                    files, response, db_up, cacheVars, extractVars, sideVars >>

\* the worker process is started anew and draws its hash seed
restart ==
    /\ \E seed \in Seeds : hash_seed' = seed
    /\ UNCHANGED << comparison, earlier, renderVars, taskVars, storeVars,
                    historyVars, files, response, db_up, cacheVars, extractVars,
                    sideVars >>

CompareNext ==
    \/ compare_call
    \/ compare_again
    \/ restart

CompareSpec == CacheInit /\ [][CompareNext]_vars

\* A compare call has returned: its arguments and its report.
Compared == comparison # NoComparison

TheDesign == comparison.inputs[1].design
TheSite == comparison.inputs[1].site
TheReport == comparison.report[1]

\* The entries of the report of one type, and of one type and design value.
EntriesOf(type) ==
    {i \in DOMAIN TheReport.differences : TheReport.differences[i].type = type}

EntriesFor(type, figma_value) ==
    {i \in EntriesOf(type) :
        TheReport.differences[i].figma_value = figma_value}

\* Some site color lies within color_tolerance of the design color:
\* distance <= tolerance, i.e. 512 * distance^2 <= 512 * tolerance^2.
WithinTolerance(figma_color, site) ==
    \E web_color \in WebsiteColors(site) :
        color_distance(Rgb[figma_color], Rgb[web_color])
            <= 512 * color_tolerance * color_tolerance

\* C14: for every distinct design fill color and every set of site colors,
\* a site color within color_tolerance of the fill means no color difference
\* for it, and no site color within tolerance means exactly one, carrying
\* both values and a delta percentage above 0.
C14_ColorPass ==
    Compared =>
        \A figma_color \in FigmaColors(TheDesign) :
            IF WithinTolerance(figma_color, TheSite)
            THEN EntriesFor("color", figma_color) = {}
            ELSE /\ Cardinality(EntriesFor("color", figma_color)) = 1
                 /\ \A i \in EntriesFor("color", figma_color) :
                       /\ TheReport.differences[i].website_value
                              \in WebsiteColors(TheSite)
                       /\ TheReport.differences[i].delta[1] > 0

\* The design has the one fill color #7c3aed and the site these colors.
Scenario(site_colors) ==
    /\ Compared
    /\ FigmaColors(TheDesign) = {Purple}
    /\ WebsiteColors(TheSite) = site_colors

\* C15: with color_tolerance 5, fill #7c3aed against site colors {#7b3aea}
\* gives no color difference; against {#10b981} it gives exactly one, of
\* severity critical.
C15_Scenarios ==
    /\ Scenario({NearPurple}) => EntriesOf("color") = {}
    /\ Scenario({Green}) =>
          /\ Cardinality(EntriesOf("color")) = 1
          /\ \A i \in EntriesOf("color") :
                TheReport.differences[i].severity = "critical"

\* The visual pass produced a score, and the score (in hundredths).
HasVisualScore == TheReport.similarity_scores # << >>

VisualScore == TheReport.similarity_scores[1].overall

\* C16 as stated: match_score lies in [0,100] and is 100 if and only if the
\* difference list is empty and the visual score is 100 or absent.
C16_HundredIffPerfect ==
    Compared =>
        /\ TheReport.summary.match_score \in 0 .. 1000
        /\ TheReport.summary.match_score = 1000
              <=> /\ TheReport.differences = << >>
                  /\ ~HasVisualScore \/ VisualScore = 10000

\* C16: match_score lies in [0,100] and is 100 if and only if the difference
\* list is empty and the visual score is absent or at least 99.92, the
\* scores for which 0.6 * visual + 40 rounds to 100.0.
C16_HundredIffRoundsToPerfect ==
    Compared =>
        /\ TheReport.summary.match_score \in 0 .. 1000
        /\ TheReport.summary.match_score = 1000
              <=> /\ TheReport.differences = << >>
                  /\ ~HasVisualScore \/ VisualScore >= 9992

\* C16 witness: nothing differs, the images are 99.92 % alike, the score is
\* 100.0.
C16_Witness ==
    /\ Compared
    /\ TheReport.differences = << >>
    /\ HasVisualScore
    /\ VisualScore = 9992
    /\ TheReport.summary.match_score = 1000

\* The score the formula gives, in tenths, for a visual score in hundredths
\* and the counts of the final list.
FormulaScore(visual_score) ==
    LET penalty == 30 * CountOf(TheReport.differences, "critical")
                       + 15 * CountOf(TheReport.differences, "warning")
                       + 5 * CountOf(TheReport.differences, "info")
        structural == IF penalty < 400 THEN 400 - penalty ELSE 0
        thousandths == 6 * visual_score + 100 * structural
        clamped == IF thousandths < 0 THEN 0
                   ELSE IF thousandths > 100000 THEN 100000 ELSE thousandths
    IN  (clamped + 50) \div 100

\* C17: match_score = 0.6 * visual_score + max(0, 40 - (3 critical + 1.5
\* warning + 0.5 info)), clamped to [0,100] and rounded to one decimal, with
\* visual_score the overall similarity whenever the visual pass produced one
\* that lies in [0,100], and 100 only when no visual pass ran.
C17_ScoreFormula ==
    Compared =>
        /\ ~HasVisualScore => TheReport.summary.match_score = FormulaScore(10000)
        /\ (HasVisualScore /\ VisualScore \in 0 .. 10000)
              => TheReport.summary.match_score = FormulaScore(VisualScore)

\* C18: two compare calls on identical design tokens and site capture give
\* the same sequence of differences (order, type, severity, values, delta)
\* and the same match_score.
C18_Deterministic ==
    (Compared /\ earlier # NoComparison /\ earlier.inputs = comparison.inputs)
        => /\ earlier.report[1].differences = TheReport.differences
           /\ earlier.report[1].summary.match_score
                  = TheReport.summary.match_score

\* The mismatches the passes detect in the arguments of the call: the design
\* colors with site colors to measure against and none within tolerance, the
\* design font families the site lacks, a root frame wider or narrower than
\* the viewport by more than the tolerance, a visual score below 90.
MismatchingColors ==
    {figma_color \in FigmaColors(TheDesign) :
        /\ WebsiteColors(TheSite) # {}
        /\ ~WithinTolerance(figma_color, TheSite)}

MissingFonts ==
    {TheDesign.design_tokens[i].typography[1].font_family :
        i \in {i \in DOMAIN TheDesign.design_tokens :
                  TheDesign.design_tokens[i].typography # << >>}}
      \ {TheSite.fonts[i].family : i \in DOMAIN TheSite.fonts}

WidthMismatch ==
    /\ TheDesign.design_tokens # << >>
    /\ TheDesign.design_tokens[1].bounds # << >>
    /\ LET delta == TheDesign.design_tokens[1].bounds[1].width
                        - TheSite.viewport[1].width
       IN  delta > dimension_tolerance \/ 0 - delta > dimension_tolerance

renderFrame ==
    << taskVars, storeVars, historyVars, files, response, db_up, cacheVars,
       extractVars, compareVars, sideVars >>

\* a step of capture_screenshot raises: the finally clause is next
Failing(message) == [capture EXCEPT !.pc = "close", !.error = message]

\* a wait has ended and the call moves on
Passing(step, position) ==
    [capture EXCEPT !.pc = position, !.steps = Append(@, step)]

AfterDomStable ==
    IF capture.scroll_to_load /\ capture.full_page THEN "scroll" ELSE "images"

AfterImages ==
    IF capture.wait_for_animations THEN "animations" ELSE "final_wait"

\* web_analyzer.py:62-64  page = await self.browser.new_page(...)
cs_new_page(wait_for_selector, full_page, scroll_to_load, wait_for_animations) ==
    /\ capture.pc \in {"idle", "returned", "raised"}
    /\ capture' = Capture("goto", wait_for_selector, full_page, scroll_to_load,
                          wait_for_animations)
    /\ UNCHANGED renderFrame

\* web_analyzer.py:68  page.goto(url, wait_until="networkidle", timeout=...)
cs_goto ==
    /\ capture.pc = "goto"
    /\ \/ capture' = Failing("Timeout 30000ms exceeded.")
       \/ capture' =
            IF capture.wait_for_selector
            THEN Passing("goto", "wait_for_selector")
            ELSE [Passing("goto", "dom_stable") EXCEPT
                     !.next_check = FirstCheckAfter,
                     !.dom_wait = DomWait("pending", 0, 0)]
    /\ UNCHANGED renderFrame

\* web_analyzer.py:71-72  page.wait_for_selector(wait_for_selector, ...)
cs_wait_for_selector ==
    /\ capture.pc = "wait_for_selector"
    /\ \/ capture' = Failing("Timeout 30000ms exceeded.")
       \/ capture' = [Passing("wait_for_selector", "dom_stable") EXCEPT
                         !.next_check = FirstCheckAfter,
                         !.dom_wait = DomWait("pending", 0, 0)]
    /\ UNCHANGED renderFrame

\* the page changes its DOM: the MutationObserver callback, lines 111-113
dom_mutation ==
    /\ capture.pc = "dom_stable"
    /\ capture.lastMutationTime # capture.clock
    /\ capture' = [capture EXCEPT !.lastMutationTime = capture.clock]
    /\ UNCHANGED renderFrame

\* Faulty variant of dom_check: the first check resolves.
dom_check_eager ==
    /\ capture.pc = "dom_stable"
    /\ capture.next_check < StabilityTimeout
    /\ capture' =
          [Passing("dom_stable", AfterDomStable) EXCEPT
              !.clock = capture.next_check,
              !.dom_wait = DomWait("resolved", capture.next_check,
                                   capture.next_check - capture.lastMutationTime)]
    /\ UNCHANGED renderFrame

\* checkStable, lines 122-129: resolve when the DOM has been quiet for more
\* than 300 ms, else look again in 100 ms
dom_check ==
    /\ capture.pc = "dom_stable"
    /\ capture.next_check < StabilityTimeout
    /\ LET time == capture.next_check
           quiet == time - capture.lastMutationTime
       IN  capture' =
              IF quiet > StableFor
              THEN [Passing("dom_stable", AfterDomStable) EXCEPT
                       !.clock = time,
                       !.dom_wait = DomWait("resolved", time, quiet)]
              ELSE [capture EXCEPT !.clock = time,
                                   !.next_check = time + CheckEvery]
    /\ UNCHANGED renderFrame

\* lines 134-139: the timer of 5 seconds resolves the promise
dom_timeout ==
    /\ capture.pc = "dom_stable"
    /\ capture.next_check >= StabilityTimeout
    /\ capture' =
          [Passing("dom_stable", AfterDomStable) EXCEPT
              !.clock = StabilityTimeout,
              !.dom_wait = DomWait("timed out", StabilityTimeout,
                                   StabilityTimeout - capture.lastMutationTime)]
    /\ UNCHANGED renderFrame

\* lines 143-144: page.evaluate raises, the exception is logged
dom_failed ==
    /\ capture.pc = "dom_stable"
    /\ capture' = [capture EXCEPT
                      !.pc = "dom_fallback",
                      !.dom_wait = DomWait("failed", capture.clock,
                                           capture.clock - capture.lastMutationTime)]
    /\ UNCHANGED renderFrame

\* line 145: await page.wait_for_timeout(1000)
dom_fallback ==
    /\ capture.pc = "dom_fallback"
    /\ \/ capture' = Failing("Target page, context or browser has been closed")
       \/ capture' = [Passing("dom_stable", AfterDomStable) EXCEPT
                         !.steps = Append(@, "wait_for_timeout(1000)")]
    /\ UNCHANGED renderFrame

\* web_analyzer.py:78-79, 147-182  _scroll_to_load_content: ends or fails,
\* the exception is logged
cs_scroll ==
    /\ capture.pc = "scroll"
    /\ capture' = Passing("scroll", "images")
    /\ UNCHANGED renderFrame

\* web_analyzer.py:82, 184-234  _wait_for_images; on an exception a wait of
\* one second, which can raise
cs_images ==
    /\ capture.pc = "images"
    /\ \/ capture' = Failing("Target page, context or browser has been closed")
       \/ capture' = Passing("images", AfterImages)
    /\ UNCHANGED renderFrame

\* web_analyzer.py:85-86, 236-278  _wait_for_animations
cs_animations ==
    /\ capture.pc = "animations"
    /\ \/ capture' = Failing("Target page, context or browser has been closed")
       \/ capture' = Passing("animations", "final_wait")
    /\ UNCHANGED renderFrame

\* web_analyzer.py:89  await page.wait_for_timeout(500)
cs_final_wait ==
    /\ capture.pc = "final_wait"
    /\ \/ capture' = Failing("Target page, context or browser has been closed")
       \/ capture' = Passing("final_wait", "screenshot")
    /\ UNCHANGED renderFrame

\* web_analyzer.py:92  await page.screenshot(path=output_path, ...)
cs_screenshot ==
    /\ capture.pc = "screenshot"
    /\ \/ capture' = Failing("Target page, context or browser has been closed")
       \/ capture' = [capture EXCEPT !.pc = "close",
                                     !.screenshot = << capture.steps >>]
    /\ UNCHANGED renderFrame

\* web_analyzer.py:94-98  return output_path; finally: await page.close()
cs_close ==
    /\ capture.pc = "close"
    /\ capture' = [capture EXCEPT
                      !.pc = IF capture.error = NoneVal THEN "returned"
                             ELSE "raised"]
    /\ UNCHANGED renderFrame

RenderNext ==
    \/ \E wait_for_selector, full_page, scroll_to_load, wait_for_animations
           \in BOOLEAN :
           cs_new_page(wait_for_selector, full_page, scroll_to_load,
                       wait_for_animations)
    \/ cs_goto
    \/ cs_wait_for_selector
    \/ dom_mutation
    \/ dom_check
    \/ dom_timeout
    \/ dom_failed
    \/ dom_fallback
    \/ cs_scroll
    \/ cs_images
    \/ cs_animations
    \/ cs_final_wait
    \/ cs_screenshot
    \/ cs_close

RenderSpec == CacheInit /\ [][RenderNext]_vars

\* The waits that must have ended, in this order, before the screenshot of
\* a call with these arguments whose stability wait ended this way.
WaitsBeforeScreenshot ==
    (IF capture.wait_for_selector THEN << "goto", "wait_for_selector" >>
     ELSE << "goto" >>)
      \o << "dom_stable" >>
      \o (IF capture.dom_wait.outcome = "failed"
          THEN << "wait_for_timeout(1000)" >> ELSE << >>)
      \o (IF capture.scroll_to_load /\ capture.full_page
          THEN << "scroll" >> ELSE << >>)
      \o << "images" >>
      \o (IF capture.wait_for_animations THEN << "animations" >> ELSE << >>)
      \o << "final_wait" >>

\* The screenshot exists only past page.screenshot, it was taken after the
\* waits in their order, and a call that returns has taken it.
ScreenshotAfterWaits ==
    /\ capture.screenshot # << >>
          => /\ capture.pc \in {"close", "returned"}
             /\ capture.screenshot[1] = WaitsBeforeScreenshot
    /\ capture.pc = "returned" => capture.screenshot # << >>

\* C19 as stated: on every path the screenshot is taken only after the
\* DOM-stability wait has resolved or timed out, and after the scroll,
\* image-load and animation waits that follow it.
C19_AfterResolvedOrTimedOut ==
    /\ ScreenshotAfterWaits
    /\ capture.screenshot # << >>
          => capture.dom_wait.outcome \in {"resolved", "timed out"}

\* C19: the screenshot is taken only after the DOM-stability wait has ended
\* and after the scroll, image-load and animation waits that follow it; the
\* stability wait ends resolved, the DOM quiet for more than 300 ms, or timed
\* out after 5 s, or by an exception of page.evaluate followed by a wait of
\* one second.
C19_AfterStabilityWaitEnded ==
    /\ ScreenshotAfterWaits
    /\ capture.screenshot # << >> =>
          \/ /\ capture.dom_wait.outcome = "resolved"
             /\ capture.dom_wait.quiet > StableFor
          \/ /\ capture.dom_wait.outcome = "timed out"
             /\ capture.dom_wait.waited = StabilityTimeout
          \/ capture.dom_wait.outcome = "failed"

\* C19 witness: the page changed its DOM during the wait, the wait resolved
\* later than it would have and the call returned its screenshot.
C19_Witness ==
    /\ capture.pc = "returned"
    /\ capture.screenshot # << >>
    /\ capture.dom_wait.outcome = "resolved"
    /\ capture.dom_wait.waited > FirstCheckAfter + CheckEvery + CheckEvery

\* ======================================================= comparator passes
TheImages == comparison.inputs[1].images

\* The design has a first token with bounds, the root frame; its width and
\* its distance from the width of the viewport.
HasRootFrame ==
    /\ TheDesign.design_tokens # << >>
    /\ TheDesign.design_tokens[1].bounds # << >>

RootWidth == TheDesign.design_tokens[1].bounds[1].width

WidthDelta ==
    IF RootWidth < TheSite.viewport[1].width
    THEN TheSite.viewport[1].width - RootWidth
    ELSE RootWidth - TheSite.viewport[1].width

\* C21: the dimension pass emits exactly one dimension difference, of
\* severity warning and carrying the delta in px, when the width of the root
\* design frame differs from the width of the viewport by more than
\* dimension_tolerance, and none otherwise.
C21_DimensionPass ==
    Compared =>
        IF HasRootFrame /\ WidthDelta > dimension_tolerance
        THEN /\ Cardinality(EntriesOf("dimension")) = 1
             /\ \A i \in EntriesOf("dimension") :
                   /\ TheReport.differences[i].severity = "warning"
                   /\ TheReport.differences[i].delta
                          = << WidthDelta, "px difference" >>
                   /\ TheReport.differences[i].figma_value = << RootWidth, "px" >>
                   /\ TheReport.differences[i].website_value
                          = << TheSite.viewport[1].width, "px" >>
        ELSE EntriesOf("dimension") = {}

\* C21 witness: design frame 1920 against viewport 1366, one warning of 554px.
C21_Witness ==
    /\ Compared
    /\ HasRootFrame
    /\ RootWidth = 1920
    /\ TheSite.viewport[1].width = 1366
    /\ \E i \in EntriesOf("dimension") :
          /\ TheReport.differences[i].severity = "warning"
          /\ TheReport.differences[i].delta = << 554, "px difference" >>

\* Three times the mean of the three measures of the compared images, in
\* quarters of a hundredth of a percent.
MeasureSum ==
    ssim_percentage(TheImages) + mse_percentage(TheImages)
        + hash_percentage(TheImages)

MissingVisualInput ==
    TheDesign.image_exports = << >> \/ TheSite.screenshot = << >>

\* C23: when the design image export or the site screenshot is absent,
\* compare still returns a completed report, emits no visual difference and
\* uses 100 as the visual score in match_score.
C23_MissingInputsDegrade ==
    Compared /\ MissingVisualInput =>
        /\ TheReport.status = "completed"
        /\ EntriesOf("visual") = {}
        /\ TheReport.similarity_scores = << >>
        /\ TheReport.summary.match_score = FormulaScore(10000)

\* C23 witness: a report made without the site screenshot, with differences
\* of other passes.
C23_Witness ==
    /\ Compared
    /\ TheDesign.image_exports # << >>
    /\ TheSite.screenshot = << >>
    /\ TheReport.differences # << >>
    /\ TheReport.status = "completed"
    /\ TheReport.summary.match_score < 1000

\* ========================================================= report polling
\* A report endpoint answers for job j in this step.
ReportAnswered(j) ==
    /\ response' # response
    /\ response'.job_id = j
    /\ response'.op \in {"get_report", "get_responsive_report"}

\* C30: while a job is queued or processing the report endpoints answer 202
\* 'still processing', and they return a report body only for a job that is
\* completed or failed.
C30_NoReportBeforeTerminal ==
    [][\A j \in JobIds :
          ReportAnswered(j) =>
              /\ (Known(j) /\ Status(j) \in {"queued", "processing"}) =>
                    response'.code = 202
              /\ response'.code = 200 => (Known(j) /\ Status(j) \in Terminal)]_vars

\* C30 witness: the report of a job is asked for while its task waits for
\* the website analysis; the answer is 202.
C30_Witness ==
    \E j \in JobIds :
        /\ Known(j)
        /\ Status(j) = "processing"
        /\ response.job_id = j
        /\ response.op = "get_report"
        /\ response.code = 202

\* ============================================================= job store
\* The task of a job writes to JobStorage, clients poll, list and delete,
\* and the jobs database comes and goes.
StoredJobs == {1}

\* Two jobs whose tasks write progress while clients poll.
PolledJobs == 1 .. 2

\* the updates a task writes (comparison_tasks.py)
TaskUpdates(job_id) ==
    { ProgressUpdate(job_id, "processing", 50, "Analyzing website...",
                     "website_analysis"),
      ProgressUpdate(job_id, "completed", 100, "Comparison complete!", NoneVal),
      ProgressUpdate(job_id, "failed", 0, "Error: comparison failed", NoneVal) }

\* the reports a task stores: report and error_report
TaskReports(job_id) ==
    { DiffReport(job_id, "completed", 8500, 2, NoneVal),
      DiffReport(job_id, "failed", 0, 0, "comparison failed") }

storeFrame ==
    << taskVars, historyVars, cacheVars, extractVars, compareVars, renderVars,
       wsVars, cache_calls >>

\* a task calls job_storage.set_progress
task_set_progress(job_id) ==
    /\ \E update \in TaskUpdates(job_id) :
         /\ set_progress(job_id, update)
         /\ written' = DictSet(written, job_id, update)
    /\ UNCHANGED << in_memory_results, files, response, db_up, deleted,
                    storeFrame >>

\* a task calls job_storage.set_result
task_set_result(job_id) ==
    /\ \E data \in TaskReports(job_id) : set_result(job_id, data)
    /\ UNCHANGED << in_memory_progress, files, response, db_up, auditVars,
                    storeFrame >>

\* JobStorage.get_result, answered as found (200) or None (404)
get_result(job_id) ==
    /\ LET data == ResultData(job_id)
       IN  response' = IF data = << >>
                       THEN Resp("get_result", job_id, 404, EmptyDict)
                       ELSE Resp("get_result", job_id, 200, data[1])
    /\ in_memory_results' = ResultCacheAfterGet(job_id)
    /\ UNCHANGED << in_memory_progress, jobs_table, files, db_up, auditVars,
                    storeFrame >>

\* JobStorage.has_result
has_result(job_id) ==
    /\ LET found == \/ job_id \in DOMAIN in_memory_results
                    \/ /\ db_up
                       /\ job_id \in DOMAIN jobs_table
                       /\ jobs_table[job_id].result_json # << >>
       IN  response' = Resp("has_result", job_id, 200, [found |-> found])
    /\ UNCHANGED << storeVars, files, db_up, auditVars, storeFrame >>

\* JobStorage.list_jobs: the ids of the rows and of the in-memory results
ListedIds ==
    (IF db_up THEN DOMAIN jobs_table ELSE {}) \cup DOMAIN in_memory_results

\* the entry of one job in GET /jobs
JobListItem(progress) ==
    [status |-> progress.status, progress |-> progress.progress,
     message |-> progress.message]

\* GET /jobs  (comparison_endpoints.py:111-123): get_progress is called for
\* every listed id, in the order of a set; the first invalid record ends
\* the request.
list_jobs ==
    /\ LoopFree
    /\ LET invalid == { j \in ListedIds : /\ ProgressData(j) # << >>
                                          /\ ~ValidProgressData(ProgressData(j)[1]) }
           cached(visited) ==
               [ j \in DOMAIN in_memory_progress \cup
                       { k \in visited : ProgressData(k) # << >> } |->
                     ProgressData(j)[1] ]
       IN  IF invalid = {}
           THEN /\ in_memory_progress' = cached(ListedIds)
                /\ response' =
                     Resp("list_jobs", 0, 200,
                          [jobs |-> [ j \in { k \in ListedIds :
                                                ProgressData(k) # << >> } |->
                                        JobListItem(ParseProgress(ProgressData(j)[1])) ]])
           ELSE /\ \E last \in invalid, before \in SUBSET (ListedIds \ invalid) :
                      in_memory_progress' = cached(before \cup {last})
                /\ response' = Resp("list_jobs", 0, 500,
                                    Detail("Internal Server Error"))
    /\ UNCHANGED << in_memory_results, jobs_table, files, db_up, auditVars,
                    storeFrame >>

\* DELETE /job/{job_id}  (comparison_endpoints.py:126-135) with
\* JobStorage.delete_job: both in-memory entries are popped, the row is
\* deleted unless the database raises, the output directory is removed.
delete_job(job_id) ==
    /\ LoopFree
    /\ in_memory_progress' = DictPop(in_memory_progress, job_id)
    /\ in_memory_results' = DictPop(in_memory_results, job_id)
    /\ jobs_table' = IF db_up THEN DictPop(jobs_table, job_id) ELSE jobs_table
    /\ files' = [ path \in { q \in DOMAIN files : q[1] # job_id } |-> files[path] ]
    /\ response' = Resp("delete_job", job_id, 200,
                        [message |-> "Job deleted successfully"])
    /\ deleted' = deleted \cup {job_id}
    /\ written' = DictPop(written, job_id)
    /\ UNCHANGED << db_up, storeFrame >>

\* the jobs database stops answering, or answers again
db_outage ==
    /\ db_up' = ~db_up
    /\ UNCHANGED << storeVars, files, response, auditVars, storeFrame >>

StoreNext ==
    \/ \E j \in StoredJobs : task_set_progress(j)
    \/ \E j \in StoredJobs : task_set_result(j)
    \/ \E j \in StoredJobs : get_progress(j)
    \/ \E j \in StoredJobs : get_result(j)
    \/ \E j \in StoredJobs : has_result(j)
    \/ \E j \in StoredJobs : delete_job(j)
    \/ list_jobs
    \/ db_outage

StoreSpec == CacheInit /\ [][StoreNext]_vars

PollNext ==
    \/ \E j \in PolledJobs : task_set_progress(j)
    \/ \E j \in PolledJobs : get_progress(j)
    \/ db_outage

PollSpec == CacheInit /\ [][PollNext]_vars

\* ======================================================== progress polling
\* C24: after any sequence of progress updates, GET /progress/{job_id}
\* returns the update most recently written for that job, and an update
\* written for one job leaves what is returned for any other job as it was.
C24_PollReturnsLatest ==
    /\ [][\A j \in PolledJobs :
            (get_progress(j) /\ j \in DOMAIN written) =>
                response' = Resp("get_progress", j, 200, written[j])]_vars
    /\ [][\A j \in PolledJobs, k \in PolledJobs :
            (j # k /\ task_set_progress(j)) =>
                ProgressData(k)' = ProgressData(k)]_vars

\* C24 witness: job 1 was polled after its task had replaced an earlier
\* update by the failed one, while job 2 is still processing; the answer is
\* the failed update.
C24_Witness ==
    /\ DOMAIN written = PolledJobs
    /\ written[1].status = "failed"
    /\ written[2].status = "processing"
    /\ response = Resp("get_progress", 1, 200, written[1])

\* ====================================================== persisted record
\* The row of a job says what the update says, and get_progress rebuilds
\* the update from it.
RecordMatches(job, update) ==
    /\ job.progress_percent = update.progress
    /\ job.progress_step = update.current_step
    /\ job.progress_message = update.message
    /\ (update.status = "failed") => (job.status = "failed")
    /\ ValidProgressData(RowProgressData(job))
    /\ ParseProgress(RowProgressData(job)) = update

\* C26: after every set_progress and set_result that reaches the database,
\* the row of the job holds the percent, step, message and status of the
\* last update written for it (status failed for a failed job), so that
\* get_progress served from the row returns that update.
C26_RecordMatchesLastUpdate ==
    [][\A j \in StoredJobs :
          /\ (task_set_progress(j) /\ db_up) =>
                 RecordMatches(jobs_table'[j], written'[j])
          /\ (task_set_result(j) /\ db_up /\ j \in DOMAIN written) =>
                 RecordMatches(jobs_table'[j], written[j])]_vars

\* ============================================================== deletion
\* C27: once delete_job has returned for a job id, no later get_progress,
\* get_result, has_result or list_jobs yields data for that id, whatever the
\* task of the job still writes.
C27_DeletedStaysDeleted ==
    [][\A j \in deleted :
          /\ get_progress(j) => response'.code = 404
          /\ get_result(j) => response'.code = 404
          /\ has_result(j) => ~response'.body.found
          /\ (list_jobs /\ response'.code = 200) =>
                 j \notin DOMAIN response'.body.jobs]_vars

\* ======================================================= progress socket
wsFrame ==
    << taskVars, storeVars, historyVars, files, response, db_up, cacheVars,
       extractVars, compareVars, renderVars, auditVars, cache_calls >>

\* ConnectionManager.disconnect
disconnect(connections, job_id) == DictPop(connections, job_id)

\* ConnectionManager.send_progress called by handler c: send_json is called
\* on the socket registered for the job; when that raises the registration
\* is dropped.
send_progress(c, job_id) ==
    IF job_id \notin DOMAIN active_connections
    THEN [connections |-> active_connections, deliveries |-> deliveries]
    ELSE LET socket == active_connections[job_id]
         IN  IF handlers[socket].open
             THEN [connections |-> active_connections,
                   deliveries |-> deliveries \cup { << c, socket >> }]
             ELSE [connections |-> disconnect(active_connections, job_id),
                   deliveries |-> deliveries]

\* a client opens /ws/progress/{job_id}: the handler awaits accept()
ws_request(c, job_id) ==
    /\ handlers[c].pc = "idle"
    /\ handlers' = [handlers EXCEPT ![c] =
                       [pc |-> "accept", job_id |-> job_id, open |-> TRUE]]
    /\ UNCHANGED << active_connections, job_progress, deliveries, wsFrame >>

\* ConnectionManager.connect after accept(), and the initial send
ws_connect(c) ==
    /\ handlers[c].pc = "accept"
    /\ LET job_id == handlers[c].job_id
           registered == DictSet(active_connections, job_id, c)
       IN  IF ~handlers[c].open
           THEN \* accept() raises before the try block: nothing is registered
                /\ handlers' = [handlers EXCEPT ![c].pc = "done"]
                /\ UNCHANGED << active_connections, deliveries >>
           ELSE /\ active_connections' = registered
                /\ deliveries' = IF job_id \in DOMAIN job_progress
                                 THEN deliveries \cup { << c, c >> }
                                 ELSE deliveries
                /\ handlers' = [handlers EXCEPT ![c].pc = "sleep"]
    /\ UNCHANGED << job_progress, wsFrame >>

\* one round of the loop after asyncio.sleep(1)
ws_wake(c) ==
    /\ handlers[c].pc = "sleep"
    /\ LET job_id == handlers[c].job_id
           sent == send_progress(c, job_id)
       IN  IF job_id \in DOMAIN job_progress
           THEN IF job_progress[job_id] \in {"completed", "failed"}
                THEN \* break, finally: manager.disconnect(job_id)
                     /\ active_connections' = disconnect(sent.connections, job_id)
                     /\ deliveries' = sent.deliveries
                     /\ handlers' = [handlers EXCEPT ![c].pc = "done"]
                ELSE /\ active_connections' = sent.connections
                     /\ deliveries' = sent.deliveries
                     /\ UNCHANGED handlers
           ELSE \* not_found is sent on the handler's own socket, then break
                /\ active_connections' = disconnect(active_connections, job_id)
                /\ deliveries' = IF handlers[c].open
                                 THEN deliveries \cup { << c, c >> }
                                 ELSE deliveries
                /\ handlers' = [handlers EXCEPT ![c].pc = "done"]
    /\ UNCHANGED << job_progress, wsFrame >>

\* the client of a connection goes away
ws_client_close(c) ==
    /\ handlers[c].pc \in {"accept", "sleep"}
    /\ handlers[c].open
    /\ handlers' = [handlers EXCEPT ![c].open = FALSE]
    /\ UNCHANGED << active_connections, job_progress, deliveries, wsFrame >>

\* the job's task writes job_progress[job_id]
ws_job_progress(job_id) ==
    /\ \E status \in {"processing", "completed", "failed"} :
         /\ DictGet(job_progress, job_id, "queued") \notin {"completed", "failed"}
         /\ job_progress' = DictSet(job_progress, job_id, status)
    /\ UNCHANGED << active_connections, handlers, deliveries, wsFrame >>

WsNext ==
    \/ \E c \in Sockets, j \in StoredJobs : ws_request(c, j)
    \/ \E c \in Sockets : ws_connect(c)
    \/ \E c \in Sockets : ws_wake(c)
    \/ \E c \in Sockets : ws_client_close(c)
    \/ \E j \in StoredJobs : ws_job_progress(j)

WsSpec == CacheInit /\ [][WsNext]_vars

\* a subscriber is live: its client is there and its handler is in the loop
Live(c) == handlers[c].pc = "sleep" /\ handlers[c].open

\* C28: a live connection stays registered in active_connections for its
\* job, whatever other connections for the same job do, and everything its
\* handler sends goes to it.
C28_LiveStaysRegistered ==
    /\ \A c \in Sockets :
         Live(c) => DictGet(active_connections, handlers[c].job_id, 0) = c
    /\ \A d \in deliveries : d[1] = d[2]

\* ====================================================== failing requests
\* The entries a lookup under this key would still return.
Servable(cache, at) ==
    { k \in DOMAIN cache : at - cache[k].timestamp < CACHE_DURATION_MINUTES }

\* C29: the cache holds payloads of successful responses only, and a fetch
\* whose request fails adds no entry, overwrites none and removes none: the
\* cache is what it was, but for an expired entry under the key of the fetch
\* that the lookup before the request deleted.
C29_FailureLeavesCache ==
    /\ [](\A k \in DOMAIN figma_cache : figma_cache[k].data \in Payloads)
    /\ [][last_fetch'.outcome = "raised" =>
            /\ DOMAIN figma_cache' \subseteq DOMAIN figma_cache
            /\ \A k \in DOMAIN figma_cache' : figma_cache'[k] = figma_cache[k]
            /\ Servable(figma_cache', now) = Servable(figma_cache, now)
            /\ DOMAIN figma_cache \ DOMAIN figma_cache' \subseteq
                   { last_fetch'.cache_key }]_vars

\* C29 witness: a forced refresh failed with a final 429 while an entry of
\* an earlier successful fetch was servable under its key; the entry is
\* still there.
C29_Witness ==
    /\ last_fetch.outcome = "raised"
    /\ last_fetch.force_refresh
    /\ Len(request_log.answers) = max_retries + 1
    /\ LastAnswer = 429
    /\ last_fetch.cache_key \in Servable(figma_cache, now)
    /\ last_fetch.found = << figma_cache[last_fetch.cache_key] >>

\* ===================================================== cache under jobs
\* The cache functions of figma_extractor.py:14-56 run by two jobs, one
\* dict operation at a time.
callFrame ==
    << taskVars, storeVars, historyVars, files, response, db_up, last_fetch,
       extractVars, compareVars, renderVars, auditVars, wsVars >>

CacheKeys ==
    { get_cache_key(f, NoneVal, "file") : f \in FileKeys } \cup
    { get_cache_key(f, n, "node") : f \in FileKeys, n \in NodeIds }

\* Faulty variant of OnLoop: the jobs run on threads of their own.
OnLoop_threads(job) == TRUE

\* The tasks are coroutines of one event loop and the Extractor has no
\* await: while a job is inside a cache function no other job runs.
OnLoop(job) == \A k \in CacheJobs \ {job} : cache_calls[k].pc = "idle"

Moves(job, call) == cache_calls' = [cache_calls EXCEPT ![job] = call]

\* get_cached_response(cache_key) is called
gc_call(job, cache_key) ==
    /\ OnLoop(job)
    /\ cache_calls[job].pc = "idle"
    /\ Moves(job, Call("contains", "get_cached_response", cache_key, NoneVal,
                       << >>, {}, NoneVal, NoneVal))
    /\ UNCHANGED << figma_cache, now, callFrame >>

\* if cache_key in _figma_cache
gc_contains(job) ==
    /\ OnLoop(job)
    /\ cache_calls[job].pc = "contains"
    /\ Moves(job, [cache_calls[job] EXCEPT
                      !.pc = IF cache_calls[job].cache_key \in DOMAIN figma_cache
                             THEN "read" ELSE "done"])
    /\ UNCHANGED << figma_cache, now, callFrame >>

\* cached = _figma_cache[cache_key]
gc_read(job) ==
    /\ OnLoop(job)
    /\ cache_calls[job].pc = "read"
    /\ LET cache_key == cache_calls[job].cache_key
       IN  Moves(job, IF cache_key \in DOMAIN figma_cache
                      THEN [cache_calls[job] EXCEPT
                               !.pc = "test", !.cached = << figma_cache[cache_key] >>]
                      ELSE [cache_calls[job] EXCEPT
                               !.pc = "done", !.error = "KeyError"])
    /\ UNCHANGED << figma_cache, now, callFrame >>

\* if datetime.now() - cached["timestamp"] < timedelta(minutes=...): return
gc_test(job) ==
    /\ OnLoop(job)
    /\ cache_calls[job].pc = "test"
    /\ LET cached == cache_calls[job].cached[1]
       IN  Moves(job, IF Fresh(cached)
                      THEN [cache_calls[job] EXCEPT
                               !.pc = "done", !.result = cached.data]
                      ELSE [cache_calls[job] EXCEPT !.pc = "evict"])
    /\ UNCHANGED << figma_cache, now, callFrame >>

\* del _figma_cache[cache_key]
gc_evict(job) ==
    /\ OnLoop(job)
    /\ cache_calls[job].pc = "evict"
    /\ LET cache_key == cache_calls[job].cache_key
       IN  IF cache_key \in DOMAIN figma_cache
           THEN /\ figma_cache' = DictPop(figma_cache, cache_key)
                /\ Moves(job, [cache_calls[job] EXCEPT !.pc = "done"])
           ELSE /\ Moves(job, [cache_calls[job] EXCEPT
                                  !.pc = "done", !.error = "KeyError"])
                /\ UNCHANGED figma_cache
    /\ UNCHANGED << now, callFrame >>

\* set_cached_response(cache_key, data, file_key): one dict assignment
sc_call(job, cache_key, data, file_key) ==
    /\ OnLoop(job)
    /\ cache_calls[job].pc = "idle"
    /\ figma_cache' = set_cached_response(figma_cache, cache_key, data, file_key)
    /\ Moves(job, Call("done", "set_cached_response", cache_key, file_key,
                       << >>, {}, NoneVal, NoneVal))
    /\ UNCHANGED << now, callFrame >>

\* clear_cache_for_file(file_key) is called: the comprehension starts to
\* iterate over _figma_cache.items()
cl_call(job, file_key) ==
    /\ OnLoop(job)
    /\ cache_calls[job].pc = "idle"
    /\ Moves(job, Call("scan", "clear_cache_for_file", NoneVal, file_key,
                       << >>, DOMAIN figma_cache, NoneVal, NoneVal))
    /\ UNCHANGED << figma_cache, now, callFrame >>

\* the iteration ends: RuntimeError when the dict changed size under it
cl_scan(job) ==
    /\ OnLoop(job)
    /\ cache_calls[job].pc = "scan"
    /\ LET seen == cache_calls[job].keys
       IN  Moves(job,
                 IF Cardinality(DOMAIN figma_cache) # Cardinality(seen)
                 THEN [cache_calls[job] EXCEPT
                          !.pc = "done", !.keys = {}, !.error = "RuntimeError"]
                 ELSE [cache_calls[job] EXCEPT
                          !.pc = "delete",
                          !.keys = { k \in seen \cap DOMAIN figma_cache :
                                       figma_cache[k].file_key =
                                           cache_calls[job].file_key }])
    /\ UNCHANGED << figma_cache, now, callFrame >>

\* for key in keys_to_delete: del _figma_cache[key]
cl_delete(job) ==
    /\ OnLoop(job)
    /\ cache_calls[job].pc = "delete"
    /\ IF cache_calls[job].keys = {}
       THEN /\ Moves(job, [cache_calls[job] EXCEPT !.pc = "done"])
            /\ UNCHANGED figma_cache
       ELSE \E key \in cache_calls[job].keys :
                IF key \in DOMAIN figma_cache
                THEN /\ figma_cache' = DictPop(figma_cache, key)
                     /\ Moves(job, [cache_calls[job] EXCEPT !.keys = @ \ {key}])
                ELSE /\ Moves(job, [cache_calls[job] EXCEPT
                                       !.pc = "done", !.error = "KeyError"])
                     /\ UNCHANGED figma_cache
    /\ UNCHANGED << now, callFrame >>

\* the call returns or raises to the job
call_return(job) ==
    /\ OnLoop(job)
    /\ cache_calls[job].pc = "done"
    /\ Moves(job, NoCall)
    /\ UNCHANGED << figma_cache, now, callFrame >>

\* datetime.now() moves on
Clock ==
    /\ now + ClockStep <= MaxTime
    /\ now' = now + ClockStep
    /\ UNCHANGED << figma_cache, cache_calls, callFrame >>

SharedNext ==
    \/ \E j \in CacheJobs, k \in CacheKeys : gc_call(j, k)
    \/ \E j \in CacheJobs : gc_contains(j)
    \/ \E j \in CacheJobs : gc_read(j)
    \/ \E j \in CacheJobs : gc_test(j)
    \/ \E j \in CacheJobs : gc_evict(j)
    \/ \E j \in CacheJobs, k \in CacheKeys, d \in Payloads, f \in FileKeys :
           sc_call(j, k, d, f)
    \/ \E j \in CacheJobs, f \in FileKeys : cl_call(j, f)
    \/ \E j \in CacheJobs : cl_scan(j)
    \/ \E j \in CacheJobs : cl_delete(j)
    \/ \E j \in CacheJobs : call_return(j)
    \/ Clock

SharedSpec == CacheInit /\ [][SharedNext]_vars

\* C25: in every interleaving of lookups, stores, expiry evictions and
\* purges by different jobs no call fails, and a lookup returns nothing or
\* the payload of the entry stored under its key, younger than the TTL.
C25_SharedCacheSafe ==
    /\ [](\A j \in CacheJobs : cache_calls[j].error = NoneVal)
    /\ [][\A j \in CacheJobs :
            (gc_test(j) /\ cache_calls'[j].result # NoneVal) =>
                LET cache_key == cache_calls[j].cache_key
                IN  /\ cache_key \in DOMAIN figma_cache
                    /\ figma_cache[cache_key].data = cache_calls'[j].result
                    /\ Fresh(figma_cache[cache_key])]_vars

\* C25 witness: job 2 looked up a key under which a payload had been
\* stored after the start, and was returned that payload while the entry
\* was younger than the TTL.
C25_Witness ==
    /\ cache_calls[2].pc = "done"
    /\ cache_calls[2].op = "get_cached_response"
    /\ cache_calls[2].result = "document v2"
    /\ cache_calls[2].cached[1].timestamp > 0
    /\ now > cache_calls[2].cached[1].timestamp

====
